---- MODULE Spec2Model ----
(***************************************************************************)
(* A model of codeql-bundle: loading a vendor bundle, resolving the packs  *)
(* of the bundle and of a workspace, planning the order in which packs are *)
(* rewritten (CustomBundle.add_packs) and rewriting them through the       *)
(* external CodeQL CLI.                                                    *)
(*                                                                         *)
(* Packs are identified by the path of their manifest (CodeQLPack hashes   *)
(* on the path), here a short identifier.  A pack name is a sequence of    *)
(* tokens in which "/" and "-" are tokens of their own, so that the string *)
(* operations of the code (split, replace, removesuffix) are computed on   *)
(* the name.  A version is a triple <<major, minor, patch>>.               *)
(***************************************************************************)
EXTENDS Integers, Sequences, FiniteSets, TLC

\* Python's recursion limit, scaled to the model: deeper than this, a recursive
\* call raises RecursionError.  Any recursion deeper than the number of packs
\* revisits a pack that is still being visited and never returns.
RecursionLimit == 10

\* The largest number of pack names given on the command line.
MaxSelected == 2

None == "None"

----------------------------------------------------------------------------
(* Sequences *)

Range(s) == {s[i] : i \in DOMAIN s}

Contains(s, x) == \E i \in DOMAIN s : s[i] = x

IndexOf(s, x) == CHOOSE i \in DOMAIN s : s[i] = x /\ \A j \in 1..(i - 1) : s[j] # x

Reverse(s) == [i \in 1..Len(s) |-> s[Len(s) + 1 - i]]

----------------------------------------------------------------------------
(* The packs of the model: the vendor bundle's and the workspace's *)

VendorIds == {"std", "std2", "util", "vq", "vq2"}

WorkspaceIds == {"cust", "cust2", "lib", "qry"}

\* A pack whose name has no scope
UnscopedIds == {"bare"}

\* Workspace packs with the name of a pack of the vendor bundle: a library pack
\* at a version of its own, and a query pack at the version of the vendor's
ShadowIds == {"wutil", "wvq"}

\* Workspace packs with a Customizations.qll that does not make them
\* customization packs: a library pack with the file in the directory of its
\* unchanged name, and a query pack
OddIds == {"hyph", "qcust"}

\* Query packs of the codeql scope in a workspace that pack install has not
\* been run on: one without a lock file, one without a .codeql directory
UninstalledIds == {"jq", "gq"}

PackIds ==
    VendorIds \cup WorkspaceIds \cup UnscopedIds \cup ShadowIds \cup OddIds
    \cup UninstalledIds

\* CodeQLPackConfig.name
Name(p) ==
    CASE p = "std"   -> <<"codeql", "/", "cpp", "-", "all">>
      [] p = "std2"  -> <<"codeql", "/", "cpp", "-", "all">>
      [] p = "util"  -> <<"codeql", "/", "util">>
      [] p = "vq"    -> <<"codeql", "/", "cpp", "-", "queries">>
      [] p = "vq2"   -> <<"codeql", "/", "cpp", "-", "queries">>
      [] p = "cust"  -> <<"acme", "/", "cpp", "-", "cust">>
      [] p = "cust2" -> <<"acme", "/", "java", "-", "cust">>
      [] p = "lib"   -> <<"acme", "/", "lib">>
      [] p = "qry"   -> <<"acme", "/", "queries">>
      [] p = "bare"  -> <<"bare">>
      [] p = "wutil" -> <<"codeql", "/", "util">>
      [] p = "wvq"   -> <<"codeql", "/", "cpp", "-", "queries">>
      [] p = "hyph"  -> <<"acme", "/", "cpp", "-", "hyph">>
      [] p = "qcust" -> <<"acme", "/", "q", "-", "cust">>
      [] p = "jq"    -> <<"codeql", "/", "java", "-", "queries">>
      [] p = "gq"    -> <<"codeql", "/", "go", "-", "queries">>

\* CodeQLPackConfig.version
Version(p) ==
    CASE p \in {"std2", "vq2"} -> <<2, 0, 0>>
      [] p = "cust2"           -> <<1, 2, 0>>
      [] p = "wutil"           -> <<1, 1, 0>>
      [] OTHER                 -> <<1, 0, 0>>

\* CodeQLPackConfig.library
Library(p) == p \notin {"vq", "vq2", "qry", "qcust", "wvq", "jq", "gq"}

\* The directories of the pack, relative to the manifest's directory, that hold
\* a Customizations.qll module.
CustomizationDirs(p) ==
    CASE p = "cust"  -> {<<"acme", "/", "cpp", "_", "cust">>}
      [] p = "cust2" -> {<<"acme", "/", "java", "_", "cust">>}
      [] p = "hyph"  -> {<<"acme", "/", "cpp", "-", "hyph">>}
      [] p = "qcust" -> {<<"acme", "/", "q", "_", "cust">>}
      [] OTHER       -> {}

----------------------------------------------------------------------------
(* Names *)

\* str.replace(old, new) on a name
Replace(name, old, new) ==
    [i \in 1..Len(name) |-> IF name[i] = old THEN new ELSE name[i]]

\* CodeQLPackConfig.get_scope: the part before the first "/", None without one
get_scope(name) ==
    IF Contains(name, "/") THEN SubSeq(name, 1, IndexOf(name, "/") - 1) ELSE None

\* str.split("/")[1]: the part between the first "/" and the next one
SplitSecond(name) ==
    LET rest == SubSeq(name, IndexOf(name, "/") + 1, Len(name))
    IN  IF Contains(rest, "/") THEN SubSeq(rest, 1, IndexOf(rest, "/") - 1) ELSE rest

\* CodeQLPackConfig.get_pack_name
get_pack_name(name) ==
    IF get_scope(name) # None THEN SplitSecond(name) ELSE name

\* ResolvedCodeQLPack.get_module_name
get_module_name(name) == Replace(Replace(name, "-", "_"), "/", ".")

\* ResolvedCodeQLPack.is_stdlib_module / config.get_scope() == "codeql"
InCodeqlScope(p) == get_scope(Name(p)) = <<"codeql">>

----------------------------------------------------------------------------
(* Versions and version constraints (semantic_version.Version, NpmSpec) *)

VersionLess(a, b) ==
    \/ a[1] < b[1]
    \/ a[1] = b[1] /\ a[2] < b[2]
    \/ a[1] = b[1] /\ a[2] = b[2] /\ a[3] < b[3]

\* str(version): the text of a version, which NpmSpec reads as "exactly it"
VersionStr(v) == [op |-> "=", v |-> v]

Caret(v) == [op |-> "^", v |-> v]

Star == [op |-> "*", v |-> <<0, 0, 0>>]

\* NpmSpec.match
Match(spec, v) ==
    CASE spec.op = "=" -> v = spec.v
      [] spec.op = "^" -> v[1] = spec.v[1] /\ ~VersionLess(v, spec.v)
      [] spec.op = "*" -> TRUE

Dep(name, spec) == [name |-> name, spec |-> spec]

----------------------------------------------------------------------------
(* The program's state *)

VARIABLES
    vendor,        \* pack_ls(bundle): the vendor bundle's packs, in listing order
    workspace,     \* pack_ls(workspace): the workspace's packs, in listing order
    dependencies,  \* CodeQLPackConfig.dependencies of every pack, in declaration order
    pc,            \* the position of the run
    resolved,      \* the ResolvedCodeQLPack of every pack resolved so far
    visited,       \* the packs whose dependencies a resolver has begun to resolve
    names,         \* the PACKS arguments of the command line
    selected_packs,\* main's selected_packs, the packs handed to add_packs
    pack_sorter,   \* add_packs' TopologicalSorter
    std_lib_deps,  \* add_packs' map of standard library packs to customization packs
    sorted_packs,  \* add_packs' sorted_packs
    index,         \* the position in sorted_packs of the pack being processed
    qlpacks,       \* the pack directories under <bundle>/qlpacks
    temp,          \* the pack copies under <scratch>/temp, by path
    calls,         \* the calls of CodeQL.pack_bundle and CodeQL.pack_create, in order
    executed,      \* the external CLI commands run by CodeQL._exec, in order
    archives,      \* the archive files written
    exception,     \* the exception that ended the run, None while there is none
    exit_status,   \* the exit status of the process, None while it runs
    workers,       \* bundle's archive workers: the state of each platform's future
    system,        \* platform.system() of the machine the program runs on
    tool_dirs,     \* the directories that exist under <bundle>/cpp/tools
    platform,      \* the --platform options of the command line
    output_is_dir, \* whether the --output path is a directory
    hash_seed,     \* the hash randomisation of the interpreter that runs the program
    first_run,     \* what an earlier run of the resolvers on the same inputs gave, if any
    languages,     \* self.languages: the languages the bundle's CLI reports
    tarinfo,       \* the member of the bundle tree handed to the archive filter
    filtered,      \* what the archive filter returned for it
    tmp_dir,       \* self.tmp_dir: the scratch directory and its finalizer, once made
    teardowns,     \* how many times Bundle.__del__ has run
    del_raised,    \* whether a call of Bundle.__del__ raised
    message,       \* which message the resolver's exception carries, None while none is raised
    workspace_path,\* the pack directories under the workspace's directory
    codeql_version \* CodeQL.version(): the version the bundle's CLI reports

inputs == <<vendor, workspace, dependencies, names, system, tool_dirs, platform, output_is_dir,
            languages, codeql_version>>

plan == <<pack_sorter, std_lib_deps, sorted_packs>>

files == <<qlpacks, temp, workspace_path>>

cli == <<calls, executed>>

runs == <<hash_seed, first_run>>

tar == <<tarinfo, filtered>>

scratch == <<tmp_dir, teardowns, del_raised>>

----------------------------------------------------------------------------
(* BundlePlatform and the platforms of a bundle *)

LINUX == "LINUX"
WINDOWS == "WINDOWS"
OSX == "OSX"

\* The values of the --platform option (click.Choice)
PlatformChoices == {"linux64", "osx64", "win64"}

\* BundlePlatform.from_string, on the lower-cased option
from_string(str) ==
    CASE str \in {"linux", "linux64"} -> LINUX
      [] str \in {"windows", "win64"} -> WINDOWS
      [] str \in {"osx", "osx64"}     -> OSX

\* BundlePlatform.__str__
PlatformStr(p) ==
    CASE p = LINUX   -> "linux64"
      [] p = WINDOWS -> "win64"
      [] p = OSX     -> "osx64"

supports_linux == IF "linux64" \in tool_dirs THEN {LINUX} ELSE {}

supports_macos == IF "osx64" \in tool_dirs THEN {OSX} ELSE {}

supports_windows == IF "win64" \in tool_dirs THEN {WINDOWS} ELSE {}

\* self.platforms
platforms == supports_linux \cup supports_macos \cup supports_windows

\* Bundle.__init__'s check of the machine: its system is one of the three and
\* the bundle supports it
SystemSupported ==
    /\ system \in {"Linux", "Darwin", "Windows"}
    /\ system = "Linux" => LINUX \in platforms
    /\ system = "Darwin" => OSX \in platforms
    /\ system = "Windows" => WINDOWS \in platforms

\* Bundle.supports_platform
supports_platform(p) == p \in platforms

\* main with no check of the requested platforms
unsupported_platforms_unchecked == {}

\* main's unsupported_platforms
unsupported_platforms == {p \in platform : ~supports_platform(from_string(p))}

----------------------------------------------------------------------------
(* build_pack_resolver *)

QUERY_PACK == "QUERY_PACK"
LIBRARY_PACK == "LIBRARY_PACK"
CUSTOMIZATION_PACK == "CUSTOMIZATION_PACK"

\* get_pack_kind, with the test of every pack's kind read as "is a library"
get_pack_kind_no_customization(p) ==
    IF Library(p) THEN LIBRARY_PACK ELSE QUERY_PACK

\* get_pack_kind
get_pack_kind(p) ==
    IF Library(p)
    THEN IF Replace(Name(p), "-", "_") \in CustomizationDirs(p)
         THEN CUSTOMIZATION_PACK
         ELSE LIBRARY_PACK
    ELSE QUERY_PACK

\* candidates[dep_name] were the packs of a name kept in a set: their order
\* would be that of their hashes, which changes with the hash randomisation
candidates_in_hash_order(all, name) ==
    IF hash_seed = 0
    THEN SelectSeq(all, LAMBDA p : Name(p) = name)
    ELSE Reverse(SelectSeq(all, LAMBDA p : Name(p) = name))

\* candidates[dep_name]: the packs of that name, the packs to resolve first and
\* the already resolved packs after them
candidates(all, name) == SelectSeq(all, LAMBDA p : Name(p) = name)

Ok == "ok"

\* A resolver that never takes a candidate for the pack it was asked to resolve
is_starting_pack_never(ctx, candidate_pack) == FALSE

\* candidate_pack == pack
is_starting_pack(ctx, candidate_pack) == candidate_pack = ctx.pack

RECURSIVE inner(_, _, _, _), resolve_dependencies(_, _, _, _, _, _),
          resolve_dependency(_, _, _, _, _, _, _)

\* The loop over candidates[dep_name] for one declared dependency d of a pack:
\* every matching candidate is resolved, the last one is kept.  m holds
\* resolved_packs and the packs whose dependencies the resolver has begun to
\* resolve (the packs of its "Resolving dependency" log lines).
resolve_dependency(ctx, d, cs, j, found, m, depth) ==
    IF j > Len(cs)
    THEN [status |-> IF found = None THEN "unresolved" ELSE Ok, m |-> m, dep |-> found]
    ELSE IF is_starting_pack(ctx, cs[j])
    THEN [status |-> "self_dependency", m |-> m, dep |-> found]
    ELSE IF Match(d.spec, Version(cs[j]))
    THEN LET r == inner(ctx, cs[j], m, depth + 1)
         IN  IF r.status # Ok
             THEN [status |-> r.status, m |-> r.m, dep |-> found]
             ELSE resolve_dependency(ctx, d, cs, j + 1, cs[j], r.m, depth)
    ELSE resolve_dependency(ctx, d, cs, j + 1, found, m, depth)

\* The loop over the declared dependencies of p, in declaration order
resolve_dependencies(ctx, p, i, acc, m, depth) ==
    IF i > Len(ctx.decl[p])
    THEN [status |-> Ok, m |-> m, deps |-> acc]
    ELSE LET d == ctx.decl[p][i]
             r == resolve_dependency(ctx, d, candidates(ctx.all, d.name), 1, None,
                                     [m EXCEPT !.visited = @ \cup {p}], depth)
         IN  IF r.status # Ok
             THEN [status |-> r.status, m |-> r.m, deps |-> acc]
             ELSE resolve_dependencies(ctx, p, i + 1, Append(acc, r.dep), r.m, depth)

\* resolve.inner; depth counts the frames of inner
inner(ctx, p, m, depth) ==
    IF depth > RecursionLimit
    THEN [status |-> "RecursionError", m |-> m]
    ELSE IF p \in DOMAIN m.resolved_packs
    THEN [status |-> Ok, m |-> m]
    ELSE LET r == resolve_dependencies(ctx, p, 1, <<>>, m, depth)
         IN  IF r.status # Ok
             THEN [status |-> r.status, m |-> r.m]
             ELSE [status |-> Ok,
                   m |-> [r.m EXCEPT !.resolved_packs =
                            (p :> [kind |-> get_pack_kind(p), dependencies |-> r.deps])
                            @@ @]]

\* A resolver whose candidates have the already resolved packs first
resolve_seeds_first(packs, seeds, decl, pack, m) ==
    inner([all |-> seeds \o packs, decl |-> decl, pack |-> pack], pack, m, 1)

\* resolve(pack) of the resolver built from packs and already_resolved_packs
resolve(packs, seeds, decl, pack, m) ==
    inner([all |-> packs \o seeds, decl |-> decl, pack |-> pack], pack, m, 1)

RECURSIVE resolve_each(_, _, _, _, _)

\* [resolve(pack) for pack in packs]: one resolver, the packs in listing order;
\* the first failure ends the comprehension
resolve_each(packs, seeds, decl, i, m) ==
    IF i > Len(packs)
    THEN [status |-> Ok, m |-> m]
    ELSE LET r == resolve(packs, seeds, decl, packs[i], m)
         IN  IF r.status # Ok THEN r ELSE resolve_each(packs, seeds, decl, i + 1, r.m)

\* The exception a failed resolution raises
ResolverException(status) ==
    IF status = "RecursionError" THEN "RecursionError" ELSE "PackResolverException"

----------------------------------------------------------------------------
(* graphlib.TopologicalSorter, as add_packs uses it *)

EmptySorter == [nodes |-> <<>>, npredecessors |-> << >>, successors |-> << >>]

\* TopologicalSorter._get_nodeinfo: a node seen for the first time is appended
get_nodeinfo(ts, n) ==
    IF Contains(ts.nodes, n)
    THEN ts
    ELSE [nodes |-> Append(ts.nodes, n),
          npredecessors |-> (n :> 0) @@ ts.npredecessors,
          successors |-> (n :> <<>>) @@ ts.successors]

RECURSIVE add_predecessors(_, _, _, _)

add_predecessors(ts, node, preds, i) ==
    IF i > Len(preds)
    THEN ts
    ELSE LET t == get_nodeinfo(ts, preds[i])
         IN  add_predecessors(
                 [t EXCEPT !.successors[preds[i]] = Append(@, node)], node, preds, i + 1)

\* TopologicalSorter.add(node, *predecessors)
sorter_add(ts, node, preds) ==
    LET t == get_nodeinfo(ts, node)
    IN  add_predecessors([t EXCEPT !.npredecessors[node] = @ + Len(preds)], node, preds, 1)

RECURSIVE done_successors(_, _, _, _)

\* TopologicalSorter.done for one node: every successor loses a predecessor and
\* is appended to the ready nodes when it has none left
done_successors(st, succs, i, n) ==
    IF i > Len(succs)
    THEN st
    ELSE LET s == succs[i]
             c == st.npredecessors[s] - 1
         IN  done_successors(
                 [npredecessors |-> [st.npredecessors EXCEPT ![s] = c],
                  ready |-> IF c = 0 THEN Append(st.ready, s) ELSE st.ready],
                 succs, i + 1, n)

RECURSIVE done(_, _, _, _)

\* TopologicalSorter.done(*nodes)
done(ts, st, group, i) ==
    IF i > Len(group)
    THEN st
    ELSE done(ts, done_successors(st, ts.successors[group[i]], 1, group[i]), group, i + 1)

RECURSIVE order_from(_, _, _)

\* The loop of static_order: get_ready, yield the group, done
order_from(ts, st, out) ==
    IF st.ready = <<>>
    THEN out
    ELSE order_from(ts,
                    done(ts, [npredecessors |-> st.npredecessors, ready |-> <<>>],
                         st.ready, 1),
                    out \o st.ready)

\* TopologicalSorter.prepare: the nodes without predecessors, in insertion order
ready_nodes(ts) == SelectSeq(ts.nodes, LAMBDA n : ts.npredecessors[n] = 0)

RECURSIVE reaches(_, _, _, _)

\* There is a path of at most k successor edges from a to b
reaches(ts, a, b, k) ==
    /\ k > 0
    /\ \E i \in DOMAIN ts.successors[a] :
          \/ ts.successors[a][i] = b
          \/ reaches(ts, ts.successors[a][i], b, k - 1)

\* TopologicalSorter._find_cycle finds a cycle
find_cycle(ts) == \E n \in Range(ts.nodes) : reaches(ts, n, n, Len(ts.nodes))

\* list(pack_sorter.static_order())
static_order(ts) ==
    order_from(ts, [npredecessors |-> ts.npredecessors, ready |-> ready_nodes(ts)], <<>>)

----------------------------------------------------------------------------
(* CustomBundle.add_packs: the dependency graph *)

\* std_lib_deps, a defaultdict(list): its keys in insertion order
EmptyStdLibDeps == [keys |-> <<>>, deps |-> << >>]

\* std_lib_deps[key]: a missing key is inserted with an empty list
std_lib_deps_get(sld, key) ==
    IF Contains(sld.keys, key)
    THEN sld
    ELSE [keys |-> Append(sld.keys, key), deps |-> (key :> <<>>) @@ sld.deps]

\* std_lib_deps[key].append(pack)
std_lib_deps_append(sld, key, pack) ==
    LET d == std_lib_deps_get(sld, key)
    IN  [d EXCEPT !.deps[key] = Append(@, pack)]

RECURSIVE add_std_lib_dependencies(_, _, _, _)

\* The loop of add_to_graph over the customization packs among the dependencies
\* of query pack `pack`: the target of each is appended to pack.dependencies
\* unless it is there.
add_std_lib_dependencies(g, pack, customization_packs, i) ==
    IF i > Len(customization_packs)
    THEN g
    ELSE LET c == customization_packs[i]
         IN  IF g.resolved[c].dependencies = <<>>
             THEN [g EXCEPT !.status = "IndexError"]
             ELSE LET std_lib_dep == g.resolved[c].dependencies[1]
                  IN  add_std_lib_dependencies(
                          IF Contains(g.resolved[pack].dependencies, std_lib_dep)
                          THEN g
                          ELSE [g EXCEPT !.resolved[pack].dependencies =
                                              Append(@, std_lib_dep)],
                          pack, customization_packs, i + 1)

\* The customization packs among the dependencies of a query pack:
\* [dep for dep in pack.dependencies if dep.kind == CUSTOMIZATION_PACK]
direct_customization_packs(g, pack) ==
    SelectSeq(g.resolved[pack].dependencies,
              LAMBDA dep : g.resolved[dep].kind = CUSTOMIZATION_PACK)

\* pack_sorter.add(pack, *pack.dependencies) for a customization pack: the pack
\* with the edges to its dependencies
add_customization_node_with_dependencies(ts, pack) ==
    sorter_add(ts, pack, resolved[pack].dependencies)

\* add_to_graph's call pack_sorter.add(pack) for a customization pack
add_customization_node(ts, pack) == sorter_add(ts, pack, <<>>)

RECURSIVE add_to_graph(_, _, _, _), add_dependencies_to_graph(_, _, _, _, _)

\* The loop of add_to_graph over pack.dependencies
add_dependencies_to_graph(g, ws, deps, i, depth) ==
    IF i > Len(deps) \/ g.status # Ok
    THEN g
    ELSE add_dependencies_to_graph(
             IF deps[i] \in g.processed_packs
             THEN g
             ELSE add_to_graph(g, ws, deps[i], depth + 1),
             ws, deps, i + 1, depth)

\* add_to_graph(pack, processed_packs, std_lib_deps); ws is self.workspace_packs
add_to_graph(g, ws, pack, depth) ==
    IF depth > RecursionLimit
    THEN [g EXCEPT !.status = "RecursionError"]
    ELSE IF ~Contains(ws, pack)
    THEN g
    ELSE IF g.resolved[pack].kind = CUSTOMIZATION_PACK
    THEN LET ts == add_customization_node(g.pack_sorter, pack)
         IN  IF g.resolved[pack].dependencies = <<>>
             THEN [g EXCEPT !.pack_sorter = ts, !.status = "IndexError"]
             ELSE [g EXCEPT !.pack_sorter = ts,
                            !.std_lib_deps =
                                std_lib_deps_append(@, g.resolved[pack].dependencies[1],
                                                    pack),
                            !.processed_packs = @ \cup {pack}]
    ELSE LET g1 == IF g.resolved[pack].kind = QUERY_PACK
                   THEN add_std_lib_dependencies(g, pack,
                                                 direct_customization_packs(g, pack), 1)
                   ELSE g
         IN  IF g1.status # Ok
             THEN g1
             ELSE LET deps == g1.resolved[pack].dependencies
                      g2 == [g1 EXCEPT !.pack_sorter = sorter_add(@, pack, deps)]
                      g3 == add_dependencies_to_graph(g2, ws, deps, 1, depth)
                  IN  IF g3.status # Ok
                      THEN g3
                      ELSE [g3 EXCEPT !.processed_packs = @ \cup {pack}]

RECURSIVE add_packs_to_graph(_, _, _, _)

\* add_packs: for pack in packs: if not pack in processed_packs: add_to_graph(...)
add_packs_to_graph(g, ws, packs, i) ==
    IF i > Len(packs) \/ g.status # Ok
    THEN g
    ELSE add_packs_to_graph(
             IF packs[i] \in g.processed_packs THEN g ELSE add_to_graph(g, ws, packs[i], 1),
             ws, packs, i + 1)

RECURSIVE is_dependent_on(_, _, _)

\* is_dependent_on(pack, other)
is_dependent_on(res, pack, other) ==
    \/ Contains(res[pack].dependencies, other)
    \/ \E i \in DOMAIN res[pack].dependencies :
          is_dependent_on(res, res[pack].dependencies[i], other)

\* The standard query packs add_packs adds for standard library pack `pack`
dependent_query_packs(res, bundle_packs, pack) ==
    SelectSeq(bundle_packs,
              LAMBDA p : res[p].kind = QUERY_PACK /\ is_dependent_on(res, p, pack))

RECURSIVE add_query_packs(_, _, _, _)

\* for query_pack in [...]: pack_sorter.add(query_pack, pack)
add_query_packs(ts, query_packs, pack, i) ==
    IF i > Len(query_packs)
    THEN ts
    ELSE add_query_packs(sorter_add(ts, query_packs[i], <<pack>>), query_packs, pack, i + 1)

\* pack_sorter.add(pack, *deps) for a standard library pack and its
\* customization packs, without the customization packs
add_std_lib_without_deps(ts, pack, deps) == sorter_add(ts, pack, <<>>)

\* pack_sorter.add(pack, *deps) for a standard library pack and its
\* customization packs
add_std_lib(ts, pack, deps) == sorter_add(ts, pack, deps)

RECURSIVE add_std_libs_to_graph(_, _, _, _, _)

\* for pack, deps in std_lib_deps.items(): ...
add_std_libs_to_graph(ts, res, bundle_packs, sld, i) ==
    IF i > Len(sld.keys)
    THEN ts
    ELSE LET pack == sld.keys[i]
             t == add_std_lib(ts, pack, sld.deps[pack])
         IN  add_std_libs_to_graph(
                 add_query_packs(t, dependent_query_packs(res, bundle_packs, pack), pack, 1),
                 res, bundle_packs, sld, i + 1)

\* An add_packs that takes every pack of the workspace when it is given none
build_graph_of_workspace(res, ws, bundle_packs, packs) ==
    LET g == add_packs_to_graph(
                 [pack_sorter |-> EmptySorter, std_lib_deps |-> EmptyStdLibDeps,
                  processed_packs |-> {}, resolved |-> res, status |-> Ok],
                 ws, IF packs = << >> THEN ws ELSE packs, 1)
    IN  IF g.status # Ok
        THEN g
        ELSE [g EXCEPT !.pack_sorter =
                          add_std_libs_to_graph(@, g.resolved, bundle_packs,
                                                g.std_lib_deps, 1)]

\* add_packs up to the sort: the graph of the packs and of the standard library
\* packs they customize
build_graph(res, ws, bundle_packs, packs) ==
    LET g == add_packs_to_graph(
                 [pack_sorter |-> EmptySorter, std_lib_deps |-> EmptyStdLibDeps,
                  processed_packs |-> {}, resolved |-> res, status |-> Ok],
                 ws, packs, 1)
    IN  IF g.status # Ok
        THEN g
        ELSE [g EXCEPT !.pack_sorter =
                          add_std_libs_to_graph(@, g.resolved, bundle_packs,
                                                g.std_lib_deps, 1)]

----------------------------------------------------------------------------
(* The inputs of a run *)

NoDeps == <<>>

CppAll == Name("std")

\* The manifests a pack of the model may have: its declared dependencies
DependencyChoices(p) ==
    CASE p = "util"  -> {NoDeps, <<Dep(CppAll, Star)>>}
      [] p = "vq"    -> {<<Dep(CppAll, Caret(<<1, 0, 0>>))>>,
                         <<Dep(Name("util"), Star)>>,
                         <<Dep(<<"codeql", "/", "none">>, Star)>>}
      [] p = "vq2"   -> {<<Dep(CppAll, Star)>>}
      [] p = "cust"  -> {<<Dep(CppAll, Caret(<<1, 0, 0>>))>>,
                         NoDeps,
                         <<Dep(CppAll, Star), Dep(Name("lib"), Star)>>}
      [] p = "cust2" -> {<<Dep(CppAll, Star)>>}
      [] p = "lib"   -> {NoDeps,
                         <<Dep(Name("cust"), Star)>>,
                         <<Dep(Name("qry"), Star)>>,
                         <<Dep(<<"acme", "/", "none">>, Caret(<<1, 0, 0>>))>>,
                         <<Dep(Name("qry"), Star),
                           Dep(<<"acme", "/", "none">>, Caret(<<1, 0, 0>>))>>}
      [] p = "qry"   -> {<<Dep(Name("cust"), Star)>>,
                         <<Dep(Name("lib"), Star)>>,
                         <<Dep(CppAll, Caret(<<1, 0, 0>>))>>,
                         <<Dep(Name("vq"), Caret(<<1, 0, 0>>))>>,
                         <<Dep(Name("util"), Star)>>}
      [] OTHER       -> {NoDeps}

\* The vendor bundles of the model, as pack ls lists them
VendorListings ==
    {<<"std", "util", "vq">>,
     <<"std", "std2", "util", "vq">>,
     <<"std", "util", "vq", "vq2">>}

\* The workspaces of the model, as pack ls lists them
WorkspaceListings ==
    {<<"cust", "cust2", "lib", "qry">>, <<"qry", "lib", "cust2", "cust">>,
     <<"cust", "cust2", "bare", "lib", "qry">>}

\* The PACKS arguments: names of workspace packs
NameChoices ==
    {ns \in SUBSET {Name(p) : p \in WorkspaceIds} :
        Cardinality(ns) >= 1 /\ Cardinality(ns) <= MaxSelected}

\* The lines of a .qll file are sequences of tokens; these are the lines of the
\* model's files.
Import(module) == <<"import", " ">> \o module

Comment == <<"/**", " ", "doc", " ", "*/">>

Blank == <<>>

StartsWithImport(line) == line # Blank /\ line[1] = "import"

Customizations == <<"Customizations">>

\* The files of a pack's directory that the rewriter reads, as the vendor or the
\* workspace holds them: the .qll modules at its root (by module name, with their
\* lines), the lock file, the .codeql directory, the .cache directory and
\* whether it has .qlx files.
Files(p) ==
    CASE p = "std"  -> [modules |-> (<<"cpp">> :>
                                        <<Comment, Import(<<"semmle", ".", "File">>),
                                          Import(<<"semmle", ".", "Type">>)>>),
                        lock |-> FALSE, deps_dir |-> FALSE, cache |-> FALSE, qlx |-> FALSE]
      [] p = "std2" -> [modules |-> (<<"cpp">> :>
                                        <<Import(Customizations),
                                          Import(<<"semmle", ".", "File">>)>>)
                                    @@ (Customizations :> <<Import(<<"cpp">>)>>),
                        lock |-> FALSE, deps_dir |-> FALSE, cache |-> FALSE, qlx |-> FALSE]
      [] p = "vq"   -> [modules |-> << >>, lock |-> TRUE, deps_dir |-> TRUE,
                        cache |-> TRUE, qlx |-> TRUE]
      [] p = "vq2"  -> [modules |-> << >>, lock |-> TRUE, deps_dir |-> TRUE,
                        cache |-> FALSE, qlx |-> TRUE]
      [] p = "wvq"  -> [modules |-> << >>, lock |-> TRUE, deps_dir |-> TRUE,
                        cache |-> FALSE, qlx |-> FALSE]
      [] p = "jq"   -> [modules |-> << >>, lock |-> FALSE, deps_dir |-> TRUE,
                        cache |-> TRUE, qlx |-> TRUE]
      [] p = "gq"   -> [modules |-> << >>, lock |-> TRUE, deps_dir |-> FALSE,
                        cache |-> TRUE, qlx |-> TRUE]
      [] OTHER      -> [modules |-> << >>, lock |-> FALSE, deps_dir |-> FALSE,
                        cache |-> FALSE, qlx |-> FALSE]

\* The directory of pack p as it is before the run
PackDir(p, decl) ==
    [name |-> Name(p), version |-> Version(p), library |-> Library(p),
     dependencies |-> decl[p], modules |-> Files(p).modules,
     lock |-> Files(p).lock, deps_dir |-> Files(p).deps_dir,
     cache |-> Files(p).cache, qlx |-> Files(p).qlx]

vars == <<vendor, workspace, dependencies, pc, resolved, visited, names, selected_packs,
          pack_sorter, std_lib_deps, sorted_packs, index, qlpacks, temp, calls,
          executed, archives, exception, exit_status, workers, system,
          tool_dirs, platform, output_is_dir, hash_seed, first_run, languages,
          tarinfo, filtered, tmp_dir, teardowns, del_raised, message, workspace_path, codeql_version>>

\* The version of a current CLI
CurrentVersion == <<2, 15, 0>>

\* The state main starts in, for a CLI version among versions, a bundle among
\* vendors, a workspace among workspaces, manifests among decls and PACKS
\* arguments among name_choices
StartOn(versions, vendors, workspaces, decls, name_choices) ==
    /\ codeql_version \in versions
    /\ vendor \in vendors
    /\ workspace \in workspaces
    /\ \E util \in decls["util"], vq \in decls["vq"], cust \in decls["cust"],
          lib \in decls["lib"], qry \in decls["qry"] :
            dependencies =
                [p \in PackIds |->
                    CASE p = "util" -> util
                      [] p = "vq"   -> vq
                      [] p = "cust" -> cust
                      [] p = "lib"  -> lib
                      [] p = "qry"  -> qry
                      [] OTHER      -> CHOOSE d \in decls[p] : TRUE]
    /\ names \in name_choices
    /\ pc = "Bundle"
    /\ resolved = << >>
    /\ visited = {}
    /\ selected_packs = << >>
    /\ pack_sorter = EmptySorter
    /\ std_lib_deps = EmptyStdLibDeps
    /\ sorted_packs = << >>
    /\ index = 0
    /\ qlpacks = {PackDir(vendor[i], dependencies) : i \in DOMAIN vendor}
    /\ temp = << >>
    /\ workspace_path = {PackDir(workspace[i], dependencies) : i \in DOMAIN workspace}
    /\ calls = << >>
    /\ executed = << >>
    /\ archives = {}
    /\ exception = None
    /\ exit_status = None
    /\ first_run = << >>
    /\ workers = << >>
    /\ tarinfo = None
    /\ filtered = None
    /\ tmp_dir = << >>
    /\ teardowns = 0
    /\ del_raised = FALSE
    /\ message = None

\* The state main starts in with a current CLI
StartWith(vendors, workspaces, decls, name_choices) ==
    StartOn({CurrentVersion}, vendors, workspaces, decls, name_choices)

\* The state main starts in, whatever the machine and the command line's options
Start ==
    StartWith(VendorListings, WorkspaceListings,
              [p \in PackIds |-> DependencyChoices(p)], NameChoices)

\* A Linux machine, a bundle for Linux with the cpp language, no --platform
\* option and a directory as --output
OnLinux ==
    /\ system = "Linux"
    /\ tool_dirs = {"linux64"}
    /\ platform = {}
    /\ output_is_dir = TRUE
    /\ languages = {"cpp"}

Init == hash_seed = 0 /\ OnLinux /\ Start

----------------------------------------------------------------------------
(* The scratch directory *)

MaxTeardowns == 2

\* TemporaryDirectory(): the directory is made and its finalizer is registered
TemporaryDirectory == <<[exists |-> TRUE, finalizer |-> TRUE]>>

\* The scratch directory after rmtree
Removed == <<[exists |-> FALSE, finalizer |-> FALSE]>>

\* A cleanup that removes the directory without looking: it raises when the
\* directory is gone
cleanup_unguarded(t) == [dir |-> Removed, raised |-> ~t[1].exists]

\* self.tmp_dir.cleanup(): the directory is removed if its finalizer was still
\* registered or the directory still exists, and nothing is done otherwise
cleanup(t) ==
    IF t[1].finalizer \/ t[1].exists
    THEN [dir |-> Removed, raised |-> FALSE]
    ELSE [dir |-> t, raised |-> FALSE]

\* Bundle.__del__
del(t) == IF t # << >> THEN cleanup(t) ELSE [dir |-> t, raised |-> FALSE]

\* The bundle object is finalised
Finalize ==
    /\ tmp_dir' = del(tmp_dir).dir
    /\ del_raised' = (del_raised \/ del(tmp_dir).raised)
    /\ teardowns' = teardowns + 1

\* The process ends: its objects are finalised
ProcessEnds == IF pc' = "exited" THEN Finalize ELSE UNCHANGED scratch

\* Bundle.__del__ runs once more on the object of a process that has ended
Del ==
    /\ pc = "exited"
    /\ teardowns < MaxTeardowns
    /\ Finalize
    /\ UNCHANGED <<inputs, message, runs, tar, pc, workers, resolved, visited, selected_packs, plan,
                   index, files, cli, archives, exception, exit_status>>

----------------------------------------------------------------------------
(* Bundle.__init__ and CustomBundle.__init__ *)

\* Bundle.__init__: the vendor packs are listed and resolved; a failure of the
\* resolver is not caught here.
BundleInit ==
    /\ pc = "Bundle"
    /\ IF ~SystemSupported
       THEN /\ exception' = "BundleException"
            /\ pc' = "raised"
            /\ UNCHANGED <<resolved, visited, message>>
       ELSE LET r == resolve_each(vendor, <<>>, dependencies, 1,
                                  [resolved_packs |-> << >>, visited |-> {}])
            IN  /\ visited' = r.m.visited
                /\ IF r.status = Ok
                   THEN /\ resolved' = r.m.resolved_packs
                        /\ pc' = "CustomBundle"
                        /\ UNCHANGED <<exception, message>>
                   ELSE /\ exception' = ResolverException(r.status)
                        /\ pc' = "raised"
                        /\ message' = r.status
                        /\ UNCHANGED resolved
    /\ UNCHANGED <<inputs, runs, tar, teardowns, del_raised, workers, selected_packs, plan, index, files, cli, archives, exit_status>>
    /\ tmp_dir' = TemporaryDirectory

\* No sanity check: any pack passes
HasScope_unchecked(p) == TRUE

\* The sanity check of CustomBundle.__init__: every workspace pack has a scope
HasScope(p) == get_scope(Name(p)) # None

\* The except clause of CustomBundle.__init__
AsBundleException(e) ==
    IF e = "PackResolverException" THEN "BundleException" ELSE e

\* CustomBundle.__init__ after Bundle.__init__
CustomBundleInit ==
    /\ pc = "CustomBundle"
    /\ IF \E i \in DOMAIN workspace : ~HasScope(workspace[i])
       THEN /\ exception' = "BundleException"
            /\ pc' = "raised"
            /\ UNCHANGED <<resolved, visited, message>>
       ELSE LET r == resolve_each(workspace, vendor, dependencies, 1,
                                  [resolved_packs |-> resolved, visited |-> visited])
            IN  /\ visited' = r.m.visited
                /\ IF r.status = Ok
                   THEN /\ resolved' = r.m.resolved_packs
                        /\ pc' = "main"
                        /\ UNCHANGED <<exception, message>>
                   ELSE /\ exception' = AsBundleException(ResolverException(r.status))
                        /\ pc' = "raised"
                        /\ message' = r.status
                        /\ UNCHANGED resolved
    /\ UNCHANGED <<inputs, runs, tar, scratch, workers, selected_packs, plan, index, files, cli, archives, exit_status>>

----------------------------------------------------------------------------
(* main and CustomBundle.add_packs *)

\* main: a requested platform the bundle does not support ends the run
CheckPlatforms ==
    /\ pc = "main"
    /\ IF unsupported_platforms # {}
       THEN pc' = "exited" /\ exit_status' = 1
       ELSE pc' = "select" /\ UNCHANGED exit_status
    /\ UNCHANGED <<inputs, message, runs, tar, workers, resolved, visited, selected_packs, plan, index, files, cli,
                   archives, exception>>
    /\ ProcessEnds

\* main: the workspace packs whose name is among the PACKS arguments, in the
\* order of the workspace listing; a name that selects nothing ends the run
SelectPacks ==
    /\ pc = "select"
    /\ LET selected == SelectSeq(workspace, LAMBDA p : Name(p) \in names)
       IN  IF names \ {Name(selected[i]) : i \in DOMAIN selected} # {}
           THEN /\ exit_status' = 1
                /\ pc' = "exited"
                /\ UNCHANGED selected_packs
           ELSE /\ selected_packs' = selected
                /\ pc' = "add_packs"
                /\ UNCHANGED exit_status
    /\ UNCHANGED <<inputs, message, runs, tar, workers, resolved, visited, plan, index, files, cli, archives, exception>>
    /\ ProcessEnds

\* add_packs up to the sort
BuildGraph ==
    /\ pc = "add_packs"
    /\ LET g == build_graph(resolved, workspace, vendor, selected_packs)
       IN  /\ resolved' = g.resolved
           /\ pack_sorter' = g.pack_sorter
           /\ std_lib_deps' = g.std_lib_deps
           /\ IF g.status = Ok
              THEN pc' = "sort" /\ UNCHANGED exception
              ELSE pc' = "raised" /\ exception' = g.status
    /\ UNCHANGED <<inputs, message, runs, tar, scratch, workers, visited, selected_packs, sorted_packs, index, files, cli,
                   archives, exit_status>>

\* sorted_packs = list(pack_sorter.static_order())
SortPacks ==
    /\ pc = "sort"
    /\ IF find_cycle(pack_sorter)
       THEN /\ pc' = "raised"
            /\ exception' = "CycleError"
            /\ UNCHANGED <<sorted_packs, index>>
       ELSE /\ sorted_packs' = static_order(pack_sorter)
            /\ index' = 1
            /\ pc' = "loop"
            /\ UNCHANGED exception
    /\ UNCHANGED <<inputs, message, runs, tar, scratch, workers, resolved, visited, selected_packs, pack_sorter, std_lib_deps, files, cli,
                   archives, exit_status>>

----------------------------------------------------------------------------
(* The rewriter: the per-kind operations of add_packs *)

\* The pack the loop over sorted_packs is at
Current == sorted_packs[index]

InLoop == pc = "loop" /\ index <= Len(sorted_packs)

\* The directory a pack's manifest is in: pack.path.parent
IsDirOf(d, p) == d.name = Name(p) /\ d.version = Version(p)

\* The directory tree a pack's manifest was listed in
Tree(p) == IF Contains(workspace, p) THEN workspace_path ELSE qlpacks

SourceExists(p) == \E d \in Tree(p) : IsDirOf(d, p)

SourceDir(p) == CHOOSE d \in Tree(p) : IsDirOf(d, p)

\* Whether directory d is under pack.path.parent.parent of pack p.  A pack of
\* the bundle is at qlpacks/<scope>/<pack-name>/<version>, so the directory
\* holds every version of the pack; the packs of a workspace are laid out by
\* scope, <workspace>/<scope>/<pack>, so the directory holds the packs of p's
\* scope.
UnderParentParent(d, p) ==
    IF Contains(workspace, p)
    THEN get_scope(d.name) = get_scope(Name(p))
    ELSE d.name = Name(p)

\* An rmtree that leaves the tree as it is
rmtree_nothing(dirs, p) == dirs

\* shutil.rmtree(pack.path.parent.parent) on the tree the pack is in
rmtree(dirs, p) == {d \in dirs : ~UnderParentParent(d, p)}

\* copy_pack's destination under <scratch>/temp
TempPath(p) == <<get_scope(Name(p)), get_pack_name(Name(p)), Version(p)>>

\* copy_pack: shutil.copytree needs the source and refuses an existing destination
copy_pack_status(p) ==
    IF ~SourceExists(p) THEN "FileNotFoundError"
    ELSE IF TempPath(p) \in DOMAIN temp THEN "FileExistsError"
    ELSE Ok

\* qlpack_spec["dependencies"][name] = spec
SetDependency(deps, name, spec) ==
    IF \E i \in DOMAIN deps : deps[i].name = name
    THEN [i \in DOMAIN deps |-> IF deps[i].name = name THEN Dep(name, spec) ELSE deps[i]]
    ELSE Append(deps, Dep(name, spec))

\* The copy of a customization pack with its manifest left as it was
keep_dependencies(d) == d

\* bundle_customization_pack's rewrite: qlpack_spec["dependencies"] = {}
strip_dependencies(d) == [d EXCEPT !.dependencies = <<>>]

RECURSIVE add_customization_dependencies(_, _, _)

\* bundle_stdlib_pack's rewrite of the manifest: every customization pack
\* becomes a dependency, at its exact version
add_customization_dependencies(deps, customization_packs, i) ==
    IF i > Len(customization_packs)
    THEN deps
    ELSE add_customization_dependencies(
             SetDependency(deps, Name(customization_packs[i]),
                           VersionStr(Version(customization_packs[i]))),
             customization_packs, i + 1)

\* str.removesuffix("-all")
RemoveSuffixAll(name) ==
    IF Len(name) >= 2 /\ SubSeq(name, Len(name) - 1, Len(name)) = <<"-", "all">>
    THEN SubSeq(name, 1, Len(name) - 2)
    ELSE name

\* The index of the first line that starts with "import", 0 if there is none
first_import_idx(lines) ==
    IF \E i \in DOMAIN lines : StartsWithImport(lines[i])
    THEN CHOOSE i \in DOMAIN lines :
            StartsWithImport(lines[i]) /\ \A j \in 1..(i - 1) : ~StartsWithImport(lines[j])
    ELSE 0

\* list.insert(idx, line), idx counted from 1
Insert(lines, idx, line) ==
    SubSeq(lines, 1, idx - 1) \o <<line>> \o SubSeq(lines, idx, Len(lines))

\* add_customization_support(pack), on the copy d of a pack
add_customization_support(d) ==
    IF Customizations \in DOMAIN d.modules
    THEN [status |-> Ok, dir |-> d]
    ELSE IF get_scope(d.name) # <<"codeql">> \/ ~d.library
    THEN [status |-> Ok, dir |-> d]
    ELSE LET target_language == RemoveSuffixAll(get_pack_name(d.name))
         IN  IF target_language \notin DOMAIN d.modules
             THEN [status |-> "BundleException", dir |-> d]
             ELSE LET lines == d.modules[target_language]
                      idx == first_import_idx(lines)
                  IN  IF idx = 0
                      THEN [status |-> "BundleException", dir |-> d]
                      ELSE [status |-> Ok,
                            dir |-> [d EXCEPT !.modules =
                                (Customizations :> <<Import(target_language)>>)
                                @@ (target_language :>
                                        Insert(lines, idx, Import(Customizations)))
                                @@ d.modules]]

\* The import line of a customization pack in Customizations.qll
customization_import(c) == Import(get_module_name(Name(c)) \o <<".">> \o Customizations)

\* bundle_stdlib_pack's rewrite of Customizations.qll: the lines read keep their
\* line ends and get another one each, so a blank line follows each of them
update_customizations(lines, customization_packs) ==
    [i \in 1..(2 * Len(lines)) |-> IF i % 2 = 1 THEN lines[(i + 1) \div 2] ELSE Blank]
    \o [i \in 1..Len(customization_packs) |-> customization_import(customization_packs[i])]

\* bundle_stdlib_pack up to the removal of the original, on the copy d of pack
rewrite_stdlib_pack(d, customization_packs) ==
    LET d1 == [d EXCEPT !.dependencies =
                            add_customization_dependencies(@, customization_packs, 1)]
        r  == add_customization_support(d1)
    IN  IF r.status # Ok
        THEN r
        ELSE IF Customizations \notin DOMAIN r.dir.modules
        THEN [status |-> "FileNotFoundError", dir |-> r.dir]
        ELSE [status |-> Ok,
              dir |-> [r.dir EXCEPT !.modules[Customizations] =
                                        update_customizations(@, customization_packs)]]

\* A CLI that is taken to support qlx whatever its version
supports_qlx_always == TRUE

\* CodeQL.supports_qlx: self.version() >= Version("2.11.4")
supports_qlx == ~VersionLess(codeql_version, <<2, 11, 4>>)

\* bundle_query_pack's edits of the copy d of a query pack of the codeql scope,
\* in their order: unlink of the lock file, rmtree of .codeql, rmtree of .cache
\* that ignores errors, unlink of every .qlx file if the CLI supports qlx.  The
\* first two raise when there is nothing to delete.
clean_query_pack(d) ==
    IF ~d.lock
    THEN [status |-> "FileNotFoundError", dir |-> d]
    ELSE IF ~d.deps_dir
    THEN [status |-> "FileNotFoundError", dir |-> [d EXCEPT !.lock = FALSE]]
    ELSE [status |-> Ok,
          dir |-> [d EXCEPT !.lock = FALSE, !.deps_dir = FALSE, !.cache = FALSE,
                            !.qlx = IF supports_qlx THEN FALSE ELSE @]]

\* bundle_query_pack's rewrite of a query pack outside the codeql scope: the
\* resolved dependencies, each at its exact version
pinned_dependencies(deps) ==
    [i \in DOMAIN deps |-> Dep(Name(deps[i]), VersionStr(Version(deps[i])))]

Raise(e) == pc' = "raised" /\ exception' = e

\* What the external CLI leaves in the output directory for the pack it is
\* given: the pack's directory, with a fresh lock file and dependency cache
Installed(dirs, d) ==
    {e \in dirs : ~(e.name = d.name /\ e.version = d.version)}
    \cup {[d EXCEPT !.lock = TRUE, !.deps_dir = TRUE]}

\* The keyword parameters CodeQL.pack_bundle declares, were
\* disable_precompilation one of them
pack_bundle_keywords_with_precompilation == {"disable_precompilation"}

\* The keyword parameters CodeQL.pack_bundle declares: pack, output_path and
\* *additional_packs are all it takes
pack_bundle_keywords == {}

\* The keyword arguments add_packs passes to CodeQL.pack_bundle
BundleCallKeywords == {"disable_precompilation"}

StayInLoop == pc' = "loop" /\ index' = index + 1 /\ UNCHANGED exception

\* self.codeql.pack_bundle(pack, self.bundle_path / "qlpacks",
\*                         disable_precompilation=...) on directory d of pack p
PackBundleCall(p, d) ==
    /\ calls' = Append(calls, [method |-> "pack_bundle", pack |-> p, dir |-> d,
                               additional_packs |-> <<>>])
    /\ IF ~(BundleCallKeywords \subseteq pack_bundle_keywords)
       THEN Raise("TypeError") /\ UNCHANGED <<executed, qlpacks, index>>
       ELSE IF ~d.library
       THEN Raise("CodeQLException") /\ UNCHANGED <<executed, qlpacks, index>>
       ELSE \E returncode \in {0, 1} :
               /\ executed' = Append(executed, [command |-> "pack bundle", pack |-> p,
                                                dir |-> d, additional_packs |-> <<>>,
                                                returncode |-> returncode])
               /\ IF returncode = 0
                  THEN qlpacks' = Installed(qlpacks, d) /\ StayInLoop
                  ELSE Raise("CodeQLException") /\ UNCHANGED <<qlpacks, index>>

\* A pack_create that does not look at the return code of the command
PackCreateCall_unchecked(p, d, additional_packs) ==
    /\ calls' = Append(calls, [method |-> "pack_create", pack |-> p, dir |-> d,
                               additional_packs |-> additional_packs])
    /\ \E returncode \in {0, 1} :
          /\ executed' = Append(executed, [command |-> "pack create", pack |-> p,
                                           dir |-> d,
                                           additional_packs |-> additional_packs,
                                           returncode |-> returncode])
          /\ qlpacks' = Installed(qlpacks, d)
          /\ StayInLoop

\* self.codeql.pack_create(pack_copy, self.bundle_path / "qlpacks", *additional)
PackCreateCall(p, d, additional_packs) ==
    /\ calls' = Append(calls, [method |-> "pack_create", pack |-> p, dir |-> d,
                               additional_packs |-> additional_packs])
    /\ IF d.library
       THEN Raise("CodeQLException") /\ UNCHANGED <<executed, qlpacks, index>>
       ELSE \E returncode \in {0, 1} :
               /\ executed' = Append(executed, [command |-> "pack create", pack |-> p,
                                                dir |-> d,
                                                additional_packs |-> additional_packs,
                                                returncode |-> returncode])
               /\ IF returncode = 0
                  THEN qlpacks' = Installed(qlpacks, d) /\ StayInLoop
                  ELSE Raise("CodeQLException") /\ UNCHANGED <<qlpacks, index>>

\* bundle_customization_pack up to the call of pack_bundle
BundleCustomizationPack ==
    /\ InLoop
    /\ resolved[Current].kind = CUSTOMIZATION_PACK
    /\ IF copy_pack_status(Current) # Ok
       THEN Raise(copy_pack_status(Current)) /\ UNCHANGED temp
       ELSE /\ temp' = (TempPath(Current) :> strip_dependencies(SourceDir(Current))) @@ temp
            /\ pc' = "pack_bundle"
            /\ UNCHANGED exception
    /\ UNCHANGED <<inputs, message, runs, tar, scratch, workers, resolved, visited, selected_packs, plan, index, qlpacks, workspace_path, cli,
                   archives, exit_status>>

\* bundle_stdlib_pack up to the removal of the original
BundleStdlibPack ==
    /\ InLoop
    /\ resolved[Current].kind = LIBRARY_PACK
    /\ InCodeqlScope(Current)
    /\ std_lib_deps' = std_lib_deps_get(std_lib_deps, Current)
    /\ IF copy_pack_status(Current) # Ok
       THEN Raise(copy_pack_status(Current)) /\ UNCHANGED temp
       ELSE LET r == rewrite_stdlib_pack(SourceDir(Current),
                                         std_lib_deps'.deps[Current])
            IN  /\ temp' = (TempPath(Current) :> r.dir) @@ temp
                /\ IF r.status # Ok
                   THEN Raise(r.status)
                   ELSE pc' = "rmtree" /\ UNCHANGED exception
    /\ UNCHANGED <<inputs, message, runs, tar, scratch, workers, resolved, visited, selected_packs, pack_sorter, sorted_packs, index,
                   qlpacks, workspace_path, cli, archives, exit_status>>

\* bundle_library_pack: the original is handed to pack_bundle
BundleLibraryPack ==
    /\ InLoop
    /\ resolved[Current].kind = LIBRARY_PACK
    /\ ~InCodeqlScope(Current)
    /\ PackBundleCall(Current, SourceDir(Current))
    /\ UNCHANGED <<inputs, message, runs, tar, scratch, workers, resolved, visited, selected_packs, plan, temp, workspace_path, archives, exit_status>>

\* bundle_query_pack up to the removal of the original (codeql scope) or to the
\* call of pack_create (any other scope)
BundleQueryPack ==
    /\ InLoop
    /\ resolved[Current].kind = QUERY_PACK
    /\ IF copy_pack_status(Current) # Ok
       THEN Raise(copy_pack_status(Current)) /\ UNCHANGED temp
       ELSE LET d == SourceDir(Current)
            IN  IF InCodeqlScope(Current)
                THEN LET r == clean_query_pack(d)
                     IN  /\ temp' = (TempPath(Current) :> r.dir) @@ temp
                         /\ IF r.status # Ok
                            THEN Raise(r.status)
                            ELSE pc' = "rmtree" /\ UNCHANGED exception
                ELSE /\ temp' = (TempPath(Current) :>
                                    [d EXCEPT !.dependencies =
                                        pinned_dependencies(resolved[Current].dependencies)])
                                @@ temp
                     /\ pc' = "pack_create"
                     /\ UNCHANGED exception
    /\ UNCHANGED <<inputs, message, runs, tar, scratch, workers, resolved, visited, selected_packs, plan, index, qlpacks, workspace_path, cli,
                   archives, exit_status>>

\* shutil.rmtree(pack.path.parent.parent): the directory that holds the version
\* directories of the pack
RemoveOriginal ==
    /\ pc = "rmtree"
    /\ IF Contains(workspace, Current)
       THEN workspace_path' = rmtree(workspace_path, Current) /\ UNCHANGED qlpacks
       ELSE qlpacks' = rmtree(qlpacks, Current) /\ UNCHANGED workspace_path
    /\ pc' = IF Library(Current) THEN "pack_bundle" ELSE "pack_create"
    /\ UNCHANGED <<inputs, message, runs, tar, scratch, workers, resolved, visited, selected_packs, plan, index, temp, cli, archives,
                   exception, exit_status>>

\* The call of pack_bundle that ends bundle_customization_pack and
\* bundle_stdlib_pack
PackBundle ==
    /\ pc = "pack_bundle"
    /\ PackBundleCall(Current, temp[TempPath(Current)])
    /\ UNCHANGED <<inputs, message, runs, tar, scratch, workers, resolved, visited, selected_packs, plan, temp, workspace_path, archives, exit_status>>

\* The call of pack_create that ends bundle_query_pack; a pack of the codeql
\* scope is created with the bundle as additional packs
PackCreate ==
    /\ pc = "pack_create"
    /\ PackCreateCall(Current, temp[TempPath(Current)],
                      IF InCodeqlScope(Current) THEN <<"bundle_path">> ELSE <<>>)
    /\ UNCHANGED <<inputs, message, runs, tar, scratch, workers, resolved, visited, selected_packs, plan, temp, workspace_path, archives, exit_status>>

\* add_packs returns when the loop over sorted_packs is over
AddPacksReturn ==
    /\ pc = "loop"
    /\ index > Len(sorted_packs)
    /\ pc' = "bundle"
    /\ UNCHANGED <<inputs, message, runs, tar, scratch, workers, resolved, visited, selected_packs, plan, index, files, cli, archives,
                   exception, exit_status>>

\* bundle.bundle(output, platforms) without platforms, and the end of main
WriteArchive ==
    /\ pc = "bundle"
    /\ platform = {}
    /\ archives' = archives \cup {IF output_is_dir
                                   THEN <<"output", "codeql-bundle.tar.gz">>
                                   ELSE <<"output">>}
    /\ exit_status' = 0
    /\ pc' = "exited"
    /\ UNCHANGED <<inputs, message, runs, tar, workers, resolved, visited, selected_packs, plan, index, files, cli, exception>>
    /\ ProcessEnds

\* main's except clauses, and the interpreter's exit on an uncaught exception
Exit ==
    /\ pc = "raised"
    /\ exit_status' = 1
    /\ pc' = "exited"
    /\ UNCHANGED <<inputs, message, runs, tar, workers, resolved, visited, selected_packs, plan, index, files, cli, archives,
                   exception>>
    /\ ProcessEnds

Next ==
    \/ BundleInit
    \/ CustomBundleInit
    \/ CheckPlatforms
    \/ SelectPacks
    \/ BuildGraph
    \/ SortPacks
    \/ BundleCustomizationPack
    \/ BundleStdlibPack
    \/ BundleLibraryPack
    \/ BundleQueryPack
    \/ RemoveOriginal
    \/ PackBundle
    \/ PackCreate
    \/ AddPacksReturn
    \/ WriteArchive
    \/ Exit

Spec == Init /\ [][Next]_vars


-----------------------------------------------------------------------------
(* The order of the plan *)

\* The place of a pack in the order add_packs processes the plan in
Pos(p) == IndexOf(sorted_packs, p)

Planned(p) == Contains(sorted_packs, p)

\* A standard library pack that received customization packs
Customized(s) == Contains(std_lib_deps.keys, s) /\ std_lib_deps.deps[s] # <<>>

-----------------------------------------------------------------------------
(* The packs that reach the external CLI *)

\* C2: every selected pack add_packs calls pack_bundle or pack_create for is
\* handed to the external CLI: each such call is followed by the execution of
\* "pack bundle" for a library pack (a customization pack included) and of
\* "pack create" for a query pack.
C2_SelectedPackReachesCli ==
    \A i \in DOMAIN calls :
        Contains(selected_packs, calls[i].pack) =>
            \E j \in DOMAIN executed :
                /\ executed[j].pack = calls[i].pack
                /\ executed[j].command =
                       IF Library(calls[i].pack) THEN "pack bundle" ELSE "pack create"

\* C3: when add_packs has returned, the bundle holds every pack of the vendor
\* bundle and every selected workspace pack.
C3_BundleIsSuperset ==
    pc = "bundle" =>
        /\ \A p \in Range(vendor) : \E d \in qlpacks : IsDirOf(d, p)
        /\ \A p \in Range(selected_packs) : \E d \in qlpacks : IsDirOf(d, p)

\* C4: the copy of a customization pack c that is handed to pack_bundle has an
\* empty dependency mapping, while the resolved pack of c keeps, as its first
\* dependency, the standard library its manifest names first, and that library
\* has c among its customization packs.
C4_CustomizationCopyHasNoDependencies ==
    \A i \in DOMAIN calls :
        LET c == calls[i].pack
        IN  (calls[i].method = "pack_bundle" /\ resolved[c].kind = CUSTOMIZATION_PACK) =>
                /\ calls[i].dir.dependencies = <<>>
                /\ temp[TempPath(c)].dependencies = <<>>
                /\ resolved[c].dependencies # <<>>
                /\ Name(resolved[c].dependencies[1]) = dependencies[c][1].name
                /\ Contains(std_lib_deps.deps[resolved[c].dependencies[1]], c)

\* pack_bundle has been called for the copy of a customization pack whose
\* manifest declares two dependencies
C4_Witness ==
    \E i \in DOMAIN calls :
        /\ calls[i].method = "pack_bundle"
        /\ calls[i].pack = "cust"
        /\ Len(dependencies["cust"]) = 2
        /\ Len(SourceDir("cust").dependencies) = 2

-----------------------------------------------------------------------------
(* The standard library packs that received customization packs *)

\* The failures a run ends with by design: of the external CLI, of the bundle
\* or one of its packs, of the resolver and of the filesystem
DesignedFailures ==
    {"CodeQLException", "BundleException", "PackResolverException",
     "FileNotFoundError", "FileExistsError"}

\* The run is over and none of the designed failures ended it
EndedWithoutDesignedFailure == pc = "exited" /\ exception \notin DesignedFailures

\* The executions of "pack bundle" for pack s
Rebundles(s) ==
    {j \in DOMAIN executed : executed[j].command = "pack bundle" /\ executed[j].pack = s}

\* The module that holds the whole language of a standard library pack
LanguageModule(s) == RemoveSuffixAll(get_pack_name(Name(s)))

\* C5: a standard library pack s that received customization packs is
\* re-bundled from a copy whose manifest depends on each of them at its exact
\* version and whose Customizations.qll imports <module>.Customizations for
\* each of them, <module> being the pack's name with "-" replaced by "_" and
\* "/" by ".".
C5_StdlibCopyNamesCustomizations ==
    \A s \in PackIds :
        (EndedWithoutDesignedFailure /\ Planned(s) /\ Customized(s)) =>
            \E j \in Rebundles(s) :
                \A i \in DOMAIN std_lib_deps.deps[s] :
                    LET c == std_lib_deps.deps[s][i]
                    IN  /\ Contains(executed[j].dir.dependencies,
                                    Dep(Name(c), [op |-> "=", v |-> Version(c)]))
                        /\ Customizations \in DOMAIN executed[j].dir.modules
                        /\ Contains(executed[j].dir.modules[Customizations],
                                    <<"import", " ">>
                                    \o Replace(Replace(Name(c), "-", "_"), "/", ".")
                                    \o <<".", "Customizations">>)

\* C6: a standard library pack s that received customization packs is
\* re-bundled from a copy whose language module has "import Customizations"
\* as the first of its import lines.
C6_LanguageModuleImportsCustomizationsFirst ==
    \A s \in PackIds :
        (EndedWithoutDesignedFailure /\ Planned(s) /\ Customized(s)) =>
            \E j \in Rebundles(s) :
                /\ LanguageModule(s) \in DOMAIN executed[j].dir.modules
                /\ LET lines == executed[j].dir.modules[LanguageModule(s)]
                   IN  /\ first_import_idx(lines) # 0
                       /\ lines[first_import_idx(lines)] = <<"import", " ", "Customizations">>

\* C7: once the graph is built, every workspace query pack q in it that
\* depends, directly or through other packs, on a customization pack c has
\* the standard library c targets among its dependencies.
C7_QueryPackGetsTarget ==
    pc = "sort" =>
        \A q \in Range(workspace) : \A c \in Range(workspace) :
            (/\ Contains(pack_sorter.nodes, q)
             /\ resolved[q].kind = QUERY_PACK
             /\ resolved[c].kind = CUSTOMIZATION_PACK
             /\ is_dependent_on(resolved, q, c)) =>
                Contains(resolved[q].dependencies, resolved[c].dependencies[1])

\* C8: every query pack of the vendor bundle that depends, directly or not, on
\* a standard library pack s that received customization packs is in the plan
\* and is recreated by "pack create".
C8_DependentVendorQueryPacksRecreated ==
    \A s \in PackIds : \A q \in Range(vendor) :
        (/\ EndedWithoutDesignedFailure
         /\ Planned(s)
         /\ Customized(s)
         /\ resolved[q].kind = QUERY_PACK
         /\ is_dependent_on(resolved, q, s)) =>
            /\ Planned(q)
            /\ \E j \in DOMAIN executed :
                  executed[j].command = "pack create" /\ executed[j].pack = q

-----------------------------------------------------------------------------
(* The failures of the resolver *)

\* The packs a resolver of pack p chooses its dependencies from
Listing(p) == IF Contains(vendor, p) THEN vendor ELSE workspace \o vendor

\* Pack p declares a dependency that no pack of the listing satisfies
Unresolvable(p) ==
    \E i \in DOMAIN dependencies[p] :
        \A c \in Range(Listing(p)) :
            ~(Name(c) = dependencies[p][i].name /\ Match(dependencies[p][i].spec, Version(c)))

\* C9: when a pack reached during resolution declares a dependency that no
\* candidate satisfies, the resolution fails with a resolver failure, the
\* run exits with status 1 and writes no archive.
C9_UnresolvedDependencyIsResolverFailure ==
    (\E p \in visited : Unresolvable(p)) =>
        /\ exception \in {"PackResolverException", "BundleException"}
        /\ archives = {}
        /\ pc = "exited" => exit_status = 1

\* C10: a resolution either returns or fails with a resolver failure, also
\* when the packs reached from the starting pack form a dependency cycle the
\* starting pack is not on.
C10_ResolveReturnsOrFails ==
    (pc = "raised" /\ selected_packs = <<>>) =>
        exception \in {"PackResolverException", "BundleException"}


-----------------------------------------------------------------------------
(* The resolver run twice *)

\* The values of the interpreter's hash randomisation that are told apart
HashSeeds == {0, 1}

\* The program is started again on the same bundle and workspace, by an
\* interpreter with any hash randomisation, once Bundle.__init__ and
\* CustomBundle.__init__ have resolved the packs or failed
Rerun ==
    /\ pc \in {"main", "raised"}
    /\ first_run = << >>
    /\ first_run' = <<[resolved |-> resolved, exception |-> exception,
                       hash_seed |-> hash_seed]>>
    /\ hash_seed' \in HashSeeds
    /\ resolved' = << >>
    /\ visited' = {}
    /\ exception' = None
    /\ pc' = "Bundle"
    /\ tmp_dir' = << >>
    /\ message' = None
    /\ UNCHANGED <<inputs, tar, teardowns, del_raised, workers, selected_packs, plan, index,
                   files, cli, archives, exit_status>>

\* The workspaces the resolvers are run on: those of the model, and one with a
\* pack that has the name of a vendor pack
ResolverWorkspaceListings ==
    WorkspaceListings \cup {<<"wutil", "cust", "cust2", "lib", "qry">>}

InitResolver ==
    /\ hash_seed \in HashSeeds
    /\ OnLinux
    /\ StartWith(VendorListings, ResolverWorkspaceListings,
                 [p \in PackIds |-> DependencyChoices(p)], {{Name("qry")}})

NextResolver == BundleInit \/ CustomBundleInit \/ Rerun

\* The vendor packs and the workspace packs are resolved, and resolved again
ResolverSpec == InitResolver /\ [][NextResolver]_vars

-----------------------------------------------------------------------------
(* The inputs that are to be rejected *)

\* C12: a customization pack add_packs puts in the graph is rejected with a
\* bundle failure unless its manifest declares exactly one dependency, and the
\* one dependency of an accepted pack resolves to a library pack of the codeql
\* scope whose pack name ends in "-all".
C12_CustomizationPackHasOneStdlibDependency ==
    \A c \in Range(workspace) :
        (/\ pc \notin {"Bundle", "CustomBundle", "main", "select", "add_packs"}
         /\ Contains(pack_sorter.nodes, c)
         /\ resolved[c].kind = CUSTOMIZATION_PACK) =>
            IF Len(dependencies[c]) # 1
            THEN exception = "BundleException"
            ELSE LET target == resolved[c].dependencies[1]
                 IN  /\ resolved[target].kind = LIBRARY_PACK
                     /\ InCodeqlScope(target)
                     /\ get_pack_name(Name(target)) # RemoveSuffixAll(get_pack_name(Name(target)))

\* C13: when the workspace lists a pack without a scope, CustomBundle.__init__
\* fails with a bundle failure before any workspace pack is resolved and
\* before any pack is rewritten.
C13_UnscopedPackFailsInit ==
    (/\ pc \notin {"Bundle", "CustomBundle"}
     /\ Range(vendor) \subseteq DOMAIN resolved
     /\ \E p \in Range(workspace) : ~Contains(Name(p), "/")) =>
        /\ exception = "BundleException"
        /\ DOMAIN resolved \cap Range(workspace) = {}
        /\ visited \cap Range(workspace) = {}
        /\ selected_packs = << >> /\ sorted_packs = << >>
        /\ temp = << >>
    /\ workspace_path = {PackDir(workspace[i], dependencies) : i \in DOMAIN workspace} /\ calls = << >> /\ executed = << >>
        /\ qlpacks = {PackDir(vendor[i], dependencies) : i \in DOMAIN vendor}
        /\ archives = {}

\* The run has ended on the bundle failure of a workspace that lists a pack
\* without a scope after a pack that has one
C13_Witness ==
    /\ pc = "exited"
    /\ exit_status = 1
    /\ exception = "BundleException"
    /\ Contains(workspace, "bare")
    /\ workspace[1] # "bare"
    /\ Range(vendor) \subseteq DOMAIN resolved

-----------------------------------------------------------------------------
(* CustomBundle.bundle for the requested platforms *)

\* platforms = set(map(BundlePlatform.from_string, platform))
requested_platforms == {from_string(p) : p \in platform}

\* output_path / f"codeql-bundle-{platform}.tar.gz"
ArchivePath(p) == <<"output", "codeql-bundle-" \o PlatformStr(p) \o ".tar.gz">>

\* self.bundle_path, the root of the composed bundle under the scratch directory
BundleRoot == <<"tmp_dir", "codeql">>

\* The executor does not wait for its workers
all_finished_unwaited(ws) == TRUE

\* ThreadPoolExecutor.__exit__: shutdown(wait=True) returns when every worker
\* has ended
all_finished(ws) == \A p \in DOMAIN ws : ws[p].state \in {"done", "failed"}

\* bundle with platforms, up to the submission of one worker for each
SubmitWorkers ==
    /\ pc = "bundle"
    /\ platform # {}
    /\ IF ~output_is_dir \/ requested_platforms \ platforms # {}
       THEN Raise("BundleException") /\ UNCHANGED workers
       ELSE /\ workers' = [p \in requested_platforms |->
                              [state |-> "submitted", yielded |-> FALSE]]
            /\ pc' = "as_completed"
            /\ UNCHANGED exception
    /\ UNCHANGED <<inputs, message, runs, tar, scratch, resolved, visited, selected_packs, plan, index, files, cli,
                   archives, exit_status>>

\* create_bundle_for_platform: tarfile.open(bundle_output_path, mode="w:gz")
WorkerOpen(p) ==
    /\ p \in DOMAIN workers
    /\ workers[p].state = "submitted"
    /\ workers' = [workers EXCEPT ![p].state = "writing"]
    /\ archives' = archives \cup {ArchivePath(p)}
    /\ UNCHANGED <<inputs, message, runs, tar, scratch, pc, resolved, visited, selected_packs, plan, index, files,
                   cli, exception, exit_status>>

\* create_bundle_for_platform: bundle_archive.add(...) and the end of the with
\* block; writing the archive succeeds or fails
WorkerWrite(p) ==
    /\ p \in DOMAIN workers
    /\ workers[p].state = "writing"
    /\ \E state \in {"done", "failed"} : workers' = [workers EXCEPT ![p].state = state]
    /\ UNCHANGED <<inputs, message, runs, tar, scratch, pc, resolved, visited, selected_packs, plan, index, files,
                   cli, archives, exception, exit_status>>

\* for future in as_completed(future_to_platform): future.result(); the first
\* failed future raises BundleException inside the executor's with block
AsCompleted ==
    /\ pc = "as_completed"
    /\ IF \A p \in DOMAIN workers : workers[p].yielded
       THEN pc' = "shutdown" /\ UNCHANGED <<workers, exception>>
       ELSE \E p \in DOMAIN workers :
               /\ ~workers[p].yielded
               /\ workers[p].state \in {"done", "failed"}
               /\ workers' = [workers EXCEPT ![p].yielded = TRUE]
               /\ IF workers[p].state = "failed"
                  THEN pc' = "shutdown" /\ exception' = "BundleException"
                  ELSE UNCHANGED <<pc, exception>>
    /\ UNCHANGED <<inputs, message, runs, tar, scratch, resolved, visited, selected_packs, plan, index, files, cli,
                   archives, exit_status>>

\* The end of the executor's with block, then of bundle and of main
Shutdown ==
    /\ pc = "shutdown"
    /\ all_finished(workers)
    /\ IF exception = None
       THEN pc' = "exited" /\ exit_status' = 0
       ELSE pc' = "raised" /\ UNCHANGED exit_status
    /\ UNCHANGED <<inputs, message, runs, tar, workers, resolved, visited, selected_packs, plan, index,
                   files, cli, archives, exception>>
    /\ ProcessEnds

\* The machines, bundles and command lines of the runs with platforms
Systems == {"Linux", "Windows"}

ToolDirChoices == {{"linux64"}, {"linux64", "win64"}, {"linux64", "osx64", "win64"}}

InitArchive ==
    /\ hash_seed = 0
    /\ system \in Systems
    /\ tool_dirs \in ToolDirChoices
    /\ platform \in SUBSET PlatformChoices
    /\ output_is_dir \in BOOLEAN
    /\ languages = {"cpp"}
    /\ StartWith({<<"std", "util", "vq">>}, {<<"cust", "cust2", "lib", "qry">>},
                 [p \in PackIds |->
                     CASE p = "qry" -> DependencyChoices(p)
                       [] p \in {"vq", "cust"} -> {<<Dep(CppAll, Caret(<<1, 0, 0>>))>>}
                       [] p = "cust2" -> DependencyChoices(p)
                       [] p = "lib" ->
                            {NoDeps, <<Dep(<<"acme", "/", "none">>, Caret(<<1, 0, 0>>))>>}
                       [] OTHER -> {NoDeps}],
                 {ns \in NameChoices : Cardinality(ns) = 1})

NextArchive ==
    \/ Next
    \/ SubmitWorkers
    \/ \E p \in {LINUX, WINDOWS, OSX} : WorkerOpen(p)
    \/ \E p \in {LINUX, WINDOWS, OSX} : WorkerWrite(p)
    \/ AsCompleted
    \/ Shutdown
    \/ Del

\* The runs of main with --platform options
ArchiveSpec == InitArchive /\ [][NextArchive]_vars

\* C14: when a requested platform is not among those the bundle supports, the
\* run ends with status 1 before any pack is rewritten and before any archive
\* file is opened for writing.
C14_UnsupportedPlatformFailsFirst ==
    (\E p \in platform : from_string(p) \notin platforms) =>
        /\ pc \in {"Bundle", "CustomBundle", "main", "raised", "exited"}
        /\ pc = "exited" => exit_status = 1
        /\ selected_packs = << >> /\ sorted_packs = << >>
        /\ temp = << >>
    /\ workspace_path = {PackDir(workspace[i], dependencies) : i \in DOMAIN workspace} /\ calls = << >> /\ executed = << >>
        /\ qlpacks = {PackDir(vendor[i], dependencies) : i \in DOMAIN vendor}
        /\ workers = << >>
        /\ archives = {}

\* main has ended at its check of the platforms: the bundle and the workspace
\* are loaded and resolved, win64 is requested and the bundle has no win64 tools
C14_Witness ==
    /\ pc = "exited"
    /\ exit_status = 1
    /\ exception = None
    /\ "win64" \in platform
    /\ "linux64" \in platform
    /\ "win64" \notin tool_dirs
    /\ Range(workspace) \subseteq DOMAIN resolved
-----------------------------------------------------------------------------
(* The filter of the per-platform archives *)

MaxDepth == 5

\* Path.is_relative_to
is_relative_to(path, other) ==
    Len(other) <= Len(path) /\ SubSeq(path, 1, Len(other)) = other

\* relative_tools_paths
relative_tools_paths == {<<lang, "tools">> : lang \in languages} \cup {<<"tools">>}

linux64_subpaths == {"linux64", "linux"}

osx64_subpaths == {"osx64", "macos"}

win64_subpaths == {"win64", "windows"}

\* Only the directories named after the 64-bit platforms are left out
specialize_path_short(p) ==
    {"linux64", "osx64", "win64"} \ {PlatformStr(p)}

\* specialize_path: the subpaths of the platforms other than p
specialize_path(p) ==
    CASE p = LINUX   -> osx64_subpaths \cup win64_subpaths
      [] p = WINDOWS -> osx64_subpaths \cup linux64_subpaths
      [] p = OSX     -> linux64_subpaths \cup win64_subpaths

\* get_nonplatform_tool_paths
get_nonplatform_tool_paths(p) ==
    {tools \o <<subpath>> : tools \in relative_tools_paths, subpath \in specialize_path(p)}

\* filter's exclusion_paths, relative to the root of the bundle
exclusion_paths(p) ==
    get_nonplatform_tool_paths(p)
        \cup (IF p # WINDOWS
              THEN {<<"codeql.exe">>}
              ELSE {<<"swift", "qltest">>, <<"swift", "resource-dir">>})
        \cup (IF p = LINUX
              THEN {<<"swift", "qltest", "osx64">>, <<"swift", "resource-dir", "osx64">>}
              ELSE {})
        \cup (IF p = OSX
              THEN {<<"swift", "qltest", "linux64">>, <<"swift", "resource-dir", "linux64">>}
              ELSE {})

\* filter(tarinfo): None for a member that is left out, the member otherwise
filter(p, tarfile_path) ==
    LET tarfile_path_root == <<tarfile_path[1]>>
    IN  IF \E path \in exclusion_paths(p) :
               is_relative_to(tarfile_path, tarfile_path_root \o path)
        THEN None
        ELSE tarfile_path

\* The names found in the bundle tree
Parts ==
    {"cpp", "swift", "tools", "linux64", "linux", "osx64", "macos", "win64", "windows",
     "codeql.exe", "qltest"}

\* The members bundle_archive.add(self.bundle_path, arcname="codeql", ...) meets
Members ==
    {<<"codeql">> \o rest : rest \in UNION {[1..n -> Parts] : n \in 0..(MaxDepth - 1)}}

\* bundle_archive.add hands a member of the tree to the filter of platform p
Filter(p) ==
    /\ p \in DOMAIN workers
    /\ workers[p].state = "writing"
    /\ tarinfo = None
    /\ \E member \in Members :
          /\ tarinfo' = member
          /\ filtered' = filter(p, member)
    /\ UNCHANGED <<inputs, message, runs, scratch, pc, workers, resolved, visited, selected_packs,
                   plan, index, files, cli, archives, exception, exit_status>>

\* The worker of one requested platform has opened its archive, on a bundle
\* that supports every platform and has the cpp and swift languages
InitFilter ==
    /\ hash_seed = 0
    /\ system = "Linux"
    /\ tool_dirs = {"linux64", "osx64", "win64"}
    /\ platform \in {{p} : p \in PlatformChoices}
    /\ output_is_dir = TRUE
    /\ languages = {"cpp", "swift"}
    /\ codeql_version = CurrentVersion
    /\ vendor = <<"std">>
    /\ workspace = << >>
    /\ dependencies = [p \in PackIds |-> NoDeps]
    /\ names = {}
    /\ pc = "as_completed"
    /\ resolved = resolve_each(vendor, <<>>, dependencies, 1,
                               [resolved_packs |-> << >>, visited |-> {}]).m.resolved_packs
    /\ visited = {"std"}
    /\ selected_packs = << >>
    /\ pack_sorter = EmptySorter
    /\ std_lib_deps = EmptyStdLibDeps
    /\ sorted_packs = << >>
    /\ index = 1
    /\ qlpacks = {PackDir(vendor[i], dependencies) : i \in DOMAIN vendor}
    /\ temp = << >>
    /\ workspace_path = {PackDir(workspace[i], dependencies) : i \in DOMAIN workspace}
    /\ calls = << >>
    /\ executed = << >>
    /\ archives = {ArchivePath(p) : p \in requested_platforms}
    /\ exception = None
    /\ exit_status = None
    /\ first_run = << >>
    /\ workers = [p \in requested_platforms |-> [state |-> "writing", yielded |-> FALSE]]
    /\ tarinfo = None
    /\ filtered = None
    /\ tmp_dir = TemporaryDirectory
    /\ teardowns = 0
    /\ del_raised = FALSE
    /\ message = None

NextFilter == \E p \in {LINUX, WINDOWS, OSX} : Filter(p)

\* The filter applied to the members of a bundle tree
FilterSpec == InitFilter /\ [][NextFilter]_vars

\* The directory names of a platform under a tools directory
PlatformDirs(p) ==
    CASE p = LINUX   -> {"linux64", "linux"}
      [] p = OSX     -> {"osx64", "macos"}
      [] p = WINDOWS -> {"win64", "windows"}

\* The member is dir or lies under it
Under(member, dir) ==
    Len(dir) <= Len(member) /\ \A i \in DOMAIN dir : member[i] = dir[i]

\* codeql/<lang>/tools of every detected language, and codeql/tools
ToolsRoots ==
    {<<"codeql", lang, "tools">> : lang \in languages} \cup {<<"codeql", "tools">>}

\* C15: the filter of target platform p keeps every member under a tools
\* directory's p subdirectory, drops every member that is, or lies under, the
\* subdirectory of another platform in a tools directory (of a detected
\* language, or the bundle's own), and drops codeql/codeql.exe exactly when p
\* is not Windows.
C15_FilterKeepsPlatformTools ==
    \A p \in DOMAIN workers :
        tarinfo # None =>
            /\ (\E r \in ToolsRoots, d \in PlatformDirs(p) : Under(tarinfo, r \o <<d>>))
                   => filtered = tarinfo
            /\ (\E r \in ToolsRoots, q \in {LINUX, WINDOWS, OSX} \ {p} :
                    \E d \in PlatformDirs(q) : Under(tarinfo, r \o <<d>>))
                   => filtered = None
            /\ tarinfo = <<"codeql", "codeql.exe">> => (filtered = None <=> p # WINDOWS)

\* The Linux filter has dropped a file under codeql/swift/tools/macos of a
\* bundle with the swift language
C15_Witness ==
    /\ DOMAIN workers = {LINUX}
    /\ "swift" \in languages
    /\ tarinfo # None
    /\ Len(tarinfo) = 5
    /\ SubSeq(tarinfo, 1, 4) = <<"codeql", "swift", "tools", "macos">>
    /\ filtered = None
-----------------------------------------------------------------------------
(* The workers of the per-platform archives *)

\* C16: bundle starts one worker for each requested platform; the workers of
\* two platforms write to different paths and none writes to the root of the
\* composed bundle or under it; bundle has returned, normally or with a
\* failure, only when every worker has ended, and normally only when every
\* requested platform's archive was written.
C16_WorkersPerPlatform ==
    /\ pc \in {"as_completed", "shutdown"} => workers # << >>
    /\ (platform # {} /\ pc = "exited" /\ exit_status = 0) => workers # << >>
    /\ workers # << >> =>
        /\ DOMAIN workers = requested_platforms
        /\ \A p, q \in DOMAIN workers : p # q => ArchivePath(p) # ArchivePath(q)
        /\ \A p \in DOMAIN workers : ~Under(ArchivePath(p), BundleRoot)
        /\ \A p \in DOMAIN workers :
              workers[p].state # "submitted" => ArchivePath(p) \in archives
        /\ archives \subseteq {ArchivePath(p) : p \in DOMAIN workers}
        /\ pc \in {"raised", "exited"} =>
              \A p \in DOMAIN workers : workers[p].state \in {"done", "failed"}
        /\ (pc = "exited" /\ exit_status = 0) =>
              \A p \in DOMAIN workers :
                  workers[p].state = "done" /\ ArchivePath(p) \in archives

\* bundle has returned normally after the workers of two platforms wrote their
\* archives
C16_Witness ==
    /\ pc = "exited"
    /\ exit_status = 0
    /\ DOMAIN workers = {LINUX, WINDOWS}
    /\ \A p \in DOMAIN workers : workers[p].state = "done"
    /\ Cardinality(archives) = 2

\* bundle has ended with a failure of one worker, after the other worker ended
C16_FailureWitness ==
    /\ pc = "raised"
    /\ exception = "BundleException"
    /\ DOMAIN workers = {LINUX, WINDOWS}
    /\ workers[LINUX].state = "failed"
    /\ workers[WINDOWS].state = "done"
    /\ ~workers[WINDOWS].yielded
-----------------------------------------------------------------------------
(* A failure of the external CLI *)

\* C17: once a command of the external CLI has ended with a return code other
\* than 0 while a pack was being rewritten, it is the last command run and the
\* last call made, no pack later in the plan is copied or handed to the CLI, no
\* archive is written, and the run ends with exit status 1.
C17_CliFailureEndsTheRun ==
    \A j \in DOMAIN executed :
        executed[j].returncode # 0 =>
            /\ j = Len(executed)
            /\ calls[Len(calls)].pack = executed[j].pack
            /\ sorted_packs[index] = executed[j].pack
            /\ \A k \in DOMAIN sorted_packs :
                  k > index =>
                      /\ TempPath(sorted_packs[k]) \notin DOMAIN temp
                      /\ \A c \in DOMAIN calls : calls[c].pack # sorted_packs[k]
            /\ \A i \in DOMAIN executed : i # j => executed[i].pack # executed[j].pack
            /\ exception = "CodeQLException"
            /\ pc \in {"raised", "exited"}
            /\ pc = "exited" => exit_status = 1
            /\ archives = {}
            /\ workers = << >>

\* pack create has failed for the first of two query packs of the plan, and the
\* run has ended
C17_Witness ==
    /\ pc = "exited"
    /\ exit_status = 1
    /\ Len(sorted_packs) >= 2
    /\ index = 1
    /\ Len(executed) = 1
    /\ executed[1].returncode = 1
    /\ executed[1].command = "pack create"
-----------------------------------------------------------------------------
(* add_packs called by a program that holds a CustomBundle *)

\* The packs a caller may hand to add_packs: any packs of the workspace, none
\* included
Selections ==
    {SelectSeq(workspace, LAMBDA p : p \in chosen) :
        chosen \in {c \in SUBSET Range(workspace) : Cardinality(c) <= MaxSelected}}

\* bundle.add_packs(*selection)
AddPacksCall ==
    /\ pc = "main"
    /\ \E selection \in Selections : selected_packs' = selection
    /\ pc' = "add_packs"
    /\ UNCHANGED <<inputs, message, runs, tar, scratch, workers, resolved, visited, plan, index, files, cli,
                   archives, exception, exit_status>>

\* A bundle and a workspace in one listing order, with any manifests, and no
\* command line
InitApi ==
    /\ hash_seed = 0
    /\ OnLinux
    /\ StartWith({<<"std", "util", "vq">>}, {<<"cust", "cust2", "lib", "qry">>},
                 [p \in PackIds |-> DependencyChoices(p)], {{}})

NextApi ==
    \/ BundleInit
    \/ CustomBundleInit
    \/ AddPacksCall
    \/ BuildGraph
    \/ SortPacks
    \/ BundleCustomizationPack
    \/ BundleStdlibPack
    \/ BundleLibraryPack
    \/ BundleQueryPack
    \/ RemoveOriginal
    \/ PackBundle
    \/ PackCreate
    \/ AddPacksReturn
    \/ WriteArchive
    \/ Exit

\* The runs of a program that loads a CustomBundle, calls add_packs and bundle
ApiSpec == InitApi /\ [][NextApi]_vars

\* C18: once add_packs has been called with no pack, its plan is empty, no pack
\* is copied, no call of the CLI wrapper is made and no command is run, the
\* packs of the bundle tree are those it had when it was loaded, none of them
\* with a Customizations.qll it did not have, and add_packs does not fail.
C18_EmptySelectionChangesNothing ==
    (selected_packs = << >> /\ pc \notin {"Bundle", "CustomBundle", "main", "raised"}
        /\ (pc = "exited" => exit_status = 0)) =>
        /\ pc \in {"add_packs", "sort", "loop", "bundle", "exited"}
        /\ pack_sorter = EmptySorter
        /\ std_lib_deps = EmptyStdLibDeps
        /\ sorted_packs = << >>
        /\ temp = << >>
    /\ workspace_path = {PackDir(workspace[i], dependencies) : i \in DOMAIN workspace}
        /\ calls = << >>
        /\ executed = << >>
        /\ qlpacks = {PackDir(vendor[i], dependencies) : i \in DOMAIN vendor}
        /\ \A d \in qlpacks :
              Customizations \in DOMAIN d.modules =>
                  \E i \in DOMAIN vendor :
                      /\ d.name = Name(vendor[i])
                      /\ Customizations \in DOMAIN Files(vendor[i]).modules
        /\ exception = None

\* add_packs was called with no pack on a workspace that holds a customization
\* pack of the standard library, and the archive is written
C18_Witness ==
    /\ selected_packs = << >>
    /\ pc = "exited"
    /\ exit_status = 0
    /\ archives # {}
    /\ resolved["cust"].kind = CUSTOMIZATION_PACK
    /\ resolved["cust"].dependencies = <<"std">>
-----------------------------------------------------------------------------
(* The scratch directory at the end of a run *)

\* C19: the scratch directory made when the bundle is loaded exists while the
\* run goes on and is removed when the run has ended, whether the loading, the
\* resolution, the composition or the archiving failed or all succeeded; a
\* teardown after the directory is gone changes nothing and raises no error.
C19_ScratchDirectoryRemoved ==
    /\ pc = "Bundle" => tmp_dir = << >>
    /\ pc \notin {"Bundle", "exited"} => tmp_dir = TemporaryDirectory /\ teardowns = 0
    /\ pc = "exited" => teardowns >= 1
    /\ teardowns >= 1 => tmp_dir # << >> /\ ~tmp_dir[1].exists /\ ~tmp_dir[1].finalizer
    /\ ~del_raised

\* The archiving has failed in one worker, the run has ended with status 1 and
\* the teardown has run twice
C19_Witness ==
    /\ pc = "exited"
    /\ exit_status = 1
    /\ exception = "BundleException"
    /\ \E p \in DOMAIN workers : workers[p].state = "failed"
    /\ teardowns = 2
    /\ ~tmp_dir[1].exists

\* The composition has failed and the teardown has run twice
C19_CompositionWitness ==
    /\ pc = "exited"
    /\ exception = "TypeError"
    /\ temp # << >>
    /\ teardowns = 2
    /\ ~tmp_dir[1].exists

\* The loading has failed and the teardown has run twice
C19_LoadWitness ==
    /\ pc = "exited"
    /\ exception = "BundleException"
    /\ resolved = << >>
    /\ teardowns = 2
    /\ ~tmp_dir[1].exists

\* The resolution of the workspace has failed and the teardown has run twice
C19_ResolutionWitness ==
    /\ pc = "exited"
    /\ exception = "BundleException"
    /\ resolved # << >>
    /\ ~(Range(workspace) \subseteq DOMAIN resolved)
    /\ system = "Linux"
    /\ teardowns = 2
    /\ ~tmp_dir[1].exists
-----------------------------------------------------------------------------
(* The dependencies of a resolved pack *)

\* The packs of a name in the order the resolver of pack p holds them: the
\* packs it was built to resolve, then the already resolved packs
CandidatesOf(p, name) ==
    SelectSeq(IF Contains(workspace, p) THEN workspace \o vendor ELSE vendor,
              LAMBDA c : Name(c) = name)

\* C20: the dependencies of a resolved pack are, one for each declared
\* dependency and in the order of the declaration, the last pack among the
\* candidates of the declared name (the resolver's own packs first, the
\* already resolved bundle packs after them) whose version matches the
\* declared constraint.
C20_LastMatchingCandidateIsSelected ==
    \A p \in DOMAIN resolved :
        /\ Len(resolved[p].dependencies) = Len(dependencies[p])
        /\ \A i \in DOMAIN dependencies[p] :
              LET d  == dependencies[p][i]
                  r  == resolved[p].dependencies[i]
                  cs == CandidatesOf(p, d.name)
              IN  /\ Name(r) = d.name
                  /\ Match(d.spec, Version(r))
                  /\ \E j \in DOMAIN cs :
                        /\ cs[j] = r
                        /\ \A k \in DOMAIN cs : k > j => ~Match(d.spec, Version(cs[k]))

\* The workspace's query pack depends on codeql/util at any version; the
\* workspace and the bundle each hold a pack of that name, and the bundle's,
\* the later candidate, is the one selected
C20_Witness ==
    /\ pc = "main"
    /\ Contains(workspace, "wutil")
    /\ dependencies["qry"] = <<Dep(Name("util"), Star)>>
    /\ resolved["qry"].dependencies = <<"util">>
    /\ "wutil" \in DOMAIN resolved
-----------------------------------------------------------------------------
(* Dependencies that lead back to the pack being resolved *)

\* Pack y is a candidate of a declared dependency of pack x
IsCandidateOf(all, x, y) ==
    /\ Contains(all, y)
    /\ \E i \in DOMAIN dependencies[x] : dependencies[x][i].name = Name(y)

\* Pack y is a candidate of a declared dependency of x, of a matching version
IsMatchingCandidateOf(all, x, y) ==
    /\ Contains(all, y)
    /\ \E i \in DOMAIN dependencies[x] :
          /\ dependencies[x][i].name = Name(y)
          /\ Match(dependencies[x][i].spec, Version(y))

RECURSIVE ReachedFrom(_, _, _)

\* The packs the resolution of the packs in `seen` can come to, in at most n
\* more steps
ReachedFrom(all, seen, n) ==
    IF n = 0
    THEN seen
    ELSE ReachedFrom(all,
                     seen \cup {y \in PackIds :
                                  \E x \in seen : IsMatchingCandidateOf(all, x, y)},
                     n - 1)

\* Pack p is a candidate of a dependency of p or of a pack its resolution can
\* come to
LeadsBackTo(all, p) ==
    \E x \in ReachedFrom(all, {p}, Cardinality(PackIds)) : IsCandidateOf(all, x, p)

RECURSIVE DependenciesOf(_, _)

\* The transitive dependencies of the packs in `seen` in the resolved graph,
\* in at most n steps
DependenciesOf(seen, n) ==
    IF n = 0
    THEN seen
    ELSE DependenciesOf(seen \cup UNION {Range(resolved[x].dependencies) :
                                            x \in seen \cap DOMAIN resolved},
                        n - 1)

\* The packs the failed resolver was built for, and all its candidates
FailedListing == IF resolved = << >> THEN vendor ELSE workspace

FailedCandidates == IF resolved = << >> THEN vendor ELSE workspace \o vendor

\* C21: a resolution ends with the self-dependency failure only when a pack of
\* the listing is a candidate of a dependency of itself or of a pack its
\* resolution comes to, and it does end with it when the first pack of the
\* listing has one dependency, with one candidate, whose first dependency names
\* that first pack; the exception is the resolver's, or the bundle failure made
\* of it.  In the dependency graph of the packs resolved, no pack is among its
\* own transitive dependencies.
C21_SelfDependencyFails ==
    /\ message = "self_dependency" =>
          /\ pc \in {"raised", "exited"}
          /\ exception \in {"PackResolverException", "BundleException"}
          /\ \E i \in DOMAIN FailedListing :
                LeadsBackTo(FailedCandidates, FailedListing[i])
    /\ (pc = "raised" /\ message # None /\ resolved # << >> /\ workspace # << >>) =>
          LET p == workspace[1]
              all == workspace \o vendor
          IN  (/\ Len(dependencies[p]) = 1
               /\ \E q \in Range(workspace) \ {p} :
                     /\ {y \in Range(all) : IsCandidateOf(all, p, y)} = {q}
                     /\ IsMatchingCandidateOf(all, p, q)
                     /\ dependencies[q] # << >>
                     /\ dependencies[q][1].name = Name(p))
                  => message = "self_dependency"
    /\ \A p \in DOMAIN resolved :
          p \notin DependenciesOf(Range(resolved[p].dependencies), Cardinality(PackIds))

\* The workspace's first pack, the query pack, depends on the library pack,
\* whose dependency is the query pack: the resolution of the workspace has
\* ended with the self-dependency failure
C21_Witness ==
    /\ pc = "raised"
    /\ message = "self_dependency"
    /\ exception = "BundleException"
    /\ workspace[1] = "qry"
    /\ dependencies["qry"] = <<Dep(Name("lib"), Star)>>
    /\ dependencies["lib"] = <<Dep(Name("qry"), Star)>>
-----------------------------------------------------------------------------
(* What a failure of a resolver is for the caller of CustomBundle *)

\* C22: a failure of a resolver, of the vendor bundle's packs or of the
\* workspace's, leaves CustomBundle's constructor as a BundleException.
C22_ResolverFailureIsBundleFailure ==
    (message \in {"unresolved", "self_dependency"} /\ pc = "raised") =>
        exception = "BundleException"
-----------------------------------------------------------------------------
(* The kind of a pack *)

\* The workspaces whose packs are classified: those of the model, and one with
\* the packs whose Customizations.qll does not count
KindWorkspaceListings ==
    WorkspaceListings \cup {<<"cust", "hyph", "qcust", "lib", "qry">>}

InitKind ==
    /\ hash_seed = 0
    /\ OnLinux
    /\ StartWith(VendorListings, KindWorkspaceListings,
                 [p \in PackIds |-> DependencyChoices(p)], {{Name("qry")}})

NextKind == BundleInit \/ CustomBundleInit

\* The vendor packs and the workspace packs are resolved, and classified
KindSpec == InitKind /\ [][NextKind]_vars

\* <name with "-" replaced by "_">, the directory under the manifest's parent
\* in which Customizations.qll is looked for
CustomizationDir(p) ==
    [i \in DOMAIN Name(p) |-> IF Name(p)[i] = "-" THEN "_" ELSE Name(p)[i]]

\* C23: a resolved pack is a query pack exactly when its manifest does not say
\* library, a customization pack exactly when it says library and
\* Customizations.qll exists in the directory named after the pack with "_" for
\* "-", and a library pack in every other case.
C23_KindOfPack ==
    \A p \in DOMAIN resolved :
        /\ resolved[p].kind \in {QUERY_PACK, LIBRARY_PACK, CUSTOMIZATION_PACK}
        /\ resolved[p].kind = QUERY_PACK <=> ~Library(p)
        /\ resolved[p].kind = CUSTOMIZATION_PACK <=>
              (Library(p) /\ CustomizationDir(p) \in CustomizationDirs(p))
        /\ resolved[p].kind = LIBRARY_PACK <=>
              (Library(p) /\ CustomizationDir(p) \notin CustomizationDirs(p))

\* A workspace is resolved that holds a customization pack, a library pack
\* with Customizations.qll under its unchanged name and a query pack with
\* Customizations.qll under its changed name
C23_Witness ==
    /\ pc = "main"
    /\ {"cust", "hyph", "qcust", "std"} \subseteq DOMAIN resolved
    /\ resolved["cust"].kind = CUSTOMIZATION_PACK
    /\ resolved["hyph"].kind = LIBRARY_PACK
    /\ resolved["qcust"].kind = QUERY_PACK
    /\ resolved["std"].kind = LIBRARY_PACK
-----------------------------------------------------------------------------
(* The order of packs that no dependency orders *)

KindOrder == <<CUSTOMIZATION_PACK, LIBRARY_PACK, QUERY_PACK>>

\* The names of the model's packs, in alphabetical order
NamesInOrder ==
    <<Name("cust"), Name("cust2"), Name("lib"), Name("qry"),
      Name("std"), Name("vq"), Name("util")>>

\* Pack a comes before pack b by kind, then name, then version
ComesBefore(a, b) ==
    LET ka == IndexOf(KindOrder, resolved[a].kind)
        kb == IndexOf(KindOrder, resolved[b].kind)
        na == IndexOf(NamesInOrder, Name(a))
        nb == IndexOf(NamesInOrder, Name(b))
    IN  \/ ka < kb
        \/ ka = kb /\ na < nb
        \/ ka = kb /\ na = nb /\ VersionLess(Version(a), Version(b))

\* C24: two packs of the plan with no path of dependency edges between them
\* are processed in the order of their kinds (customization, library, query),
\* then of their names, then of their versions.
C24_TiesBrokenByKindNameVersion ==
    \A i, j \in DOMAIN sorted_packs :
        (/\ i < j
         /\ ~reaches(pack_sorter, sorted_packs[i], sorted_packs[j], Len(pack_sorter.nodes))
         /\ ~reaches(pack_sorter, sorted_packs[j], sorted_packs[i], Len(pack_sorter.nodes)))
            => ComesBefore(sorted_packs[i], sorted_packs[j])
-----------------------------------------------------------------------------
(* The copies under the scratch directory *)

\* The workspaces whose packs are rewritten: one that holds a query pack with
\* the name and the version of a query pack of the vendor bundle
CopyWorkspaceListings == {<<"cust", "cust2", "lib", "qry", "wvq">>}

\* The PACKS arguments that name packs of that workspace
CopyNameChoices ==
    {ns \in SUBSET {Name(p) : p \in WorkspaceIds \cup {"wvq"}} :
        Cardinality(ns) >= 1 /\ Cardinality(ns) <= MaxSelected}

InitCopy ==
    /\ hash_seed = 0
    /\ OnLinux
    /\ StartWith({<<"std", "util", "vq">>}, CopyWorkspaceListings,
                 [p \in PackIds |-> DependencyChoices(p)], CopyNameChoices)

\* A run of main on a workspace that shares a pack name and version with the
\* vendor bundle
CopySpec == InitCopy /\ [][Next]_vars

\* The packs copy_pack is called for: all but the library packs outside the
\* codeql scope
IsCopied(p) ==
    \/ resolved[p].kind \in {CUSTOMIZATION_PACK, QUERY_PACK}
    \/ resolved[p].kind = LIBRARY_PACK /\ InCodeqlScope(p)

\* C25: when the loop of add_packs comes to a pack that is copied, the
\* destination <scratch>/temp/<scope>/<pack-name>/<version> of its copy does
\* not exist yet, also when the workspace and the vendor bundle both hold a
\* pack of that name and version.
C25_CopyDestinationIsFresh ==
    (InLoop /\ IsCopied(Current)) => TempPath(Current) \notin DOMAIN temp
-----------------------------------------------------------------------------
(* Where the rewriter writes *)

\* The pack directories the vendor bundle and the workspace hold before the run
VendorOriginals == {PackDir(vendor[i], dependencies) : i \in DOMAIN vendor}

WorkspaceOriginals == {PackDir(workspace[i], dependencies) : i \in DOMAIN workspace}

\* The pack directories the external CLI has written into <bundle>/qlpacks
InstalledByCli ==
    {[executed[i].dir EXCEPT !.lock = TRUE, !.deps_dir = TRUE] :
        i \in {j \in DOMAIN executed : executed[j].returncode = 0}}

\* The run is between the removal of the original of a pack of the bundle and
\* the call that installs its copy
Reinstalling ==
    /\ pc \in {"pack_bundle", "pack_create"}
    /\ ~Contains(workspace, Current)

C26_InstalledWitness ==
    /\ pc = "loop"
    /\ \E i \in DOMAIN executed :
          /\ executed[i].returncode = 0
          /\ ~Contains(workspace, executed[i].pack)
          /\ executed[i].dir # PackDir(executed[i].pack, dependencies)
          /\ [executed[i].dir EXCEPT !.lock = TRUE, !.deps_dir = TRUE] \in qlpacks
-----------------------------------------------------------------------------
(* The steps of bundle_query_pack for a pack of the codeql scope *)

\* The CLI versions of the model: the last without qlx, the first with it and
\* a current one
VersionChoices == {<<2, 11, 3>>, <<2, 11, 4>>, CurrentVersion}

\* A workspace with query packs of the codeql scope, installed or not
QueryWorkspaceListings == {<<"cust", "lib", "qry", "wvq", "jq", "gq">>}

QueryNameChoices ==
    {ns \in SUBSET {Name(p) : p \in {"cust", "lib", "qry", "wvq", "jq", "gq"}} :
        Cardinality(ns) >= 1 /\ Cardinality(ns) <= MaxSelected}

InitQuery ==
    /\ hash_seed = 0
    /\ OnLinux
    /\ StartOn(VersionChoices, {<<"std", "util", "vq">>}, QueryWorkspaceListings,
               [p \in PackIds |->
                   CASE p \in {"qry", "vq"} -> DependencyChoices(p)
                     [] p = "cust" -> {<<Dep(CppAll, Caret(<<1, 0, 0>>))>>}
                     [] OTHER -> {NoDeps}],
               QueryNameChoices)

\* A run of main with query packs of the codeql scope, on a CLI of any version
QuerySpec == InitQuery /\ [][Next]_vars

QueryOfCodeql(p) == ~Library(p) /\ InCodeqlScope(p)

Original(p) == PackDir(p, dependencies)

\* The original without its lock file, .codeql and .cache, and without its
\* .qlx files unless the CLI is older than 2.11.4
Cleaned(p) ==
    [Original(p) EXCEPT !.lock = FALSE, !.deps_dir = FALSE, !.cache = FALSE,
                        !.qlx = @ /\ VersionLess(codeql_version, <<2, 11, 4>>)]

CalledFor(p) == \E i \in DOMAIN calls : calls[i].pack = p

\* The loop of add_packs is at a query pack of the codeql scope
AtQueryOfCodeql == index \in DOMAIN sorted_packs /\ QueryOfCodeql(Current)

\* C27: for a query pack of the codeql scope the steps come in the order copy,
\* clean the copy (lock file, .codeql, .cache, and .qlx files iff the CLI is
\* at least 2.11.4), remove the original, pack create on the copy with the
\* bundle root as additional packs; after a failed step none of the later
\* steps has happened.
C27_QueryPackStepsInOrder ==
    /\ (AtQueryOfCodeql /\ pc = "rmtree") =>
          /\ temp[TempPath(Current)] = Cleaned(Current)
          /\ SourceExists(Current)
          /\ ~CalledFor(Current)
    /\ (AtQueryOfCodeql /\ pc = "pack_create") =>
          /\ temp[TempPath(Current)] = Cleaned(Current)
          /\ ~SourceExists(Current)
          /\ ~CalledFor(Current)
    /\ \A i \in DOMAIN calls :
          QueryOfCodeql(calls[i].pack) =>
              /\ calls[i].method = "pack_create"
              /\ calls[i].dir = Cleaned(calls[i].pack)
              /\ calls[i].additional_packs = <<"bundle_path">>
    /\ (AtQueryOfCodeql /\ pc = "raised" /\ exception = "FileExistsError") =>
          SourceExists(Current) /\ ~CalledFor(Current)
    /\ (AtQueryOfCodeql /\ pc = "raised" /\ exception = "FileNotFoundError"
            /\ SourceExists(Current)) =>
          /\ ~CalledFor(Current)
          /\ \/ ~Original(Current).lock
                /\ temp[TempPath(Current)] = Original(Current)
             \/ Original(Current).lock /\ ~Original(Current).deps_dir
                /\ temp[TempPath(Current)] = [Original(Current) EXCEPT !.lock = FALSE]

\* Every step of a query pack of the bundle has happened, on a CLI older than
\* 2.11.4: the copy that pack create was run on still has its .qlx files
C27_Witness ==
    /\ pc = "loop"
    /\ codeql_version = <<2, 11, 3>>
    /\ \E i \in DOMAIN executed :
          /\ executed[i].pack = "vq"
          /\ executed[i].returncode = 0
          /\ executed[i].dir.qlx
          /\ ~executed[i].dir.cache

\* The same on a CLI that is at least 2.11.4: the .qlx files are deleted
C27_QlxWitness ==
    /\ pc = "loop"
    /\ codeql_version = <<2, 11, 4>>
    /\ \E i \in DOMAIN executed :
          /\ executed[i].pack = "vq"
          /\ executed[i].returncode = 0
          /\ ~executed[i].dir.qlx

\* The deletion of .codeql has failed: the lock file of the copy is deleted,
\* the .cache of the copy and the original are still there
C27_FailureWitness ==
    /\ AtQueryOfCodeql
    /\ Current = "gq"
    /\ pc = "raised"
    /\ exception = "FileNotFoundError"
    /\ temp[TempPath(Current)].cache
    /\ SourceExists(Current)
-----------------------------------------------------------------------------
(* The workspace during composition *)

\* C28: no step of add_packs deletes or modifies a directory of the workspace:
\* the directories of the workspace's packs are what they were before the run,
\* whatever the kind and the scope of the packs selected.
C28_WorkspaceUnchanged == workspace_path = WorkspaceOriginals
-----------------------------------------------------------------------------
(* Library packs of the codeql scope without customization packs *)

\* The customization packs that std_lib_deps holds for pack p
CustomizationsOf(p) ==
    IF Contains(std_lib_deps.keys, p) THEN std_lib_deps.deps[p] ELSE <<>>

\* C29: a library pack of the codeql scope that received no customization
\* pack is not given customization support: its copy has the modules of the
\* original (the language module is not edited, no Customizations.qll is
\* created) and composition does not fail with "Unable to customize" at it.
C29_NoSupportWithoutCustomization ==
    \A i \in DOMAIN sorted_packs :
        LET p == sorted_packs[i]
        IN  (/\ i <= index
             /\ Library(p) /\ InCodeqlScope(p)
             /\ resolved[p].kind = LIBRARY_PACK
             /\ CustomizationsOf(p) = <<>>
             /\ TempPath(p) \in DOMAIN temp) =>
                /\ temp[TempPath(p)].modules = Original(p).modules
                /\ ~(i = index /\ pc = "raised" /\ exception = "BundleException")
-----------------------------------------------------------------------------
(* Cycles in the graph of add_packs *)

RECURSIVE DependsOn(_, _, _)

\* Pack a has resolved pack b among its dependencies, at most k packs away
DependsOn(a, b, k) ==
    /\ k > 0
    /\ a \in DOMAIN resolved
    /\ \/ Contains(resolved[a].dependencies, b)
       \/ \E i \in DOMAIN resolved[a].dependencies :
             DependsOn(resolved[a].dependencies[i], b, k - 1)

\* The resolved dependencies of the packs of the bundle and of the workspace
\* have a cycle
ResolvedCyclic ==
    \E p \in DOMAIN resolved : DependsOn(p, p, Cardinality(DOMAIN resolved))

\* C30: when the resolved dependencies have no cycle, neither has the graph
\* add_packs builds from them, whatever packs of the workspace are selected,
\* and the topological sort does not fail with a cycle error.
C30_RewrittenGraphAcyclic ==
    (pack_sorter # EmptySorter /\ ~ResolvedCyclic) =>
        /\ ~find_cycle(pack_sorter)
        /\ exception # "CycleError"

\* The graph is sorted with a standard library pack that depends on its
\* customization pack, a query pack of the bundle that depends on the standard
\* library pack, and a query pack of the workspace that uses the customization
\* pack
C30_Witness ==
    /\ pc = "loop"
    /\ ~ResolvedCyclic
    /\ {"cust", "std", "vq", "qry"} \subseteq Range(sorted_packs)
    /\ Contains(resolved["qry"].dependencies, "cust")
    /\ Contains(pack_sorter.successors["cust"], "std")
    /\ Contains(pack_sorter.successors["std"], "vq")

=============================================================================
